---- MODULE Spec2Model ----
(***************************************************************************)
(* A model of the cryptographic engine and key store of File-Encrypter:    *)
(* the AES / ChaCha20-Poly1305 / RSA ciphers (src/crypto/aes.py,           *)
(* chacha20.py, rsa.py), the chunked file pipeline of CryptoBase            *)
(* (crypto_base.py), the CryptoFactory registry and the KeyManager          *)
(* (key_manager.py).                                                         *)
(*                                                                           *)
(* Byte strings are sequences of 0..255.  The primitives of the             *)
(* `cryptography` package are replaced by small invertible stand-ins that   *)
(* keep their shape: a keyed block permutation for AES, a keystream and a   *)
(* keyed checksum tag for ChaCha20-Poly1305, an OAEP-shaped encoding under  *)
(* a keyed byte permutation for RSA, a keyed token for Fernet.  Everything  *)
(* built on top of them (padding, chaining, chunking, framing, base64,      *)
(* the control flow and the error handling) is the program's own.           *)
(***************************************************************************)
EXTENDS Integers, Sequences, FiniteSets, TLC

\* ------------------------------------------------------------------ bounds

\* Longest input file, in bytes.
MaxFileLen == 34

\* Longest plaintext handed to encrypt_data directly (RSA is also given the
\* lengths around its OAEP limit, up to MaxOver bytes beyond it).
MaxDataLen == 17

MaxOver == 1

\* Longest plaintext whose ciphertext is tampered with, bit by bit.
MaxTamperLen == 2

\* Most key records the storage directory holds at a time.
MaxRecords == 2
MaxWorkerFiles == 2
MaxBatchFiles == 3
MaxFactoryCalls == 2

\* Most start_monitoring calls, latest second of the clock, longest queue.
MaxMonitors == 2
MaxClock == 1
MaxQueue == 1

\* ------------------------------------------------------- program constants

\* AES block size in bytes (self.block_size = 128 bits).
BlockBytes == 16

\* Bytes of the SHA-256 digest in the OAEP overhead 2 * 32 + 2.
HashBytes == 32

\* Length of the ChaCha20-Poly1305 nonce.
NonceBytes == 12

\* Length of the Poly1305 tag appended by ChaCha20Poly1305.encrypt.
TagBytes == 16

\* ------------------------------------------------------------ byte strings

Byte == 0..255

Fill(n, b) == [i \in 1..n |-> b]

Ramp(n, b) == [i \in 1..n |-> (b + i) % 256]

RECURSIVE SumBytes(_)
SumBytes(s) == IF s = <<>> THEN 0 ELSE (Head(s) + SumBytes(Tail(s))) % 256

RECURSIVE Xor(_, _)
Xor(a, b) ==
  IF a = 0 /\ b = 0 THEN 0
  ELSE (((a % 2) + (b % 2)) % 2) + 2 * Xor(a \div 2, b \div 2)

XorBytes(s, t) == [i \in 1..Len(s) |-> Xor(s[i], t[i])]

Take(s, n) == SubSeq(s, 1, IF n < Len(s) THEN n ELSE Len(s))

Drop(s, n) == SubSeq(s, n + 1, Len(s))

Min(a, b) == IF a < b THEN a ELSE b

\* The outcome of a call: a returned value, or the class of the exception raised.
Ok(v) == [ok |-> TRUE, data |-> v, err |-> "none"]

Raise(e) == [ok |-> FALSE, data |-> <<>>, err |-> e]

\* os.urandom(n): the model draws one of two byte strings.
Urandom(n) == {Fill(n, 1), Ramp(n, 7)}

\* ---------------------------------------------------------- Python values

\* A Python value with its type: bytes, str, int, an object that is none of
\* the serializable types (a key object), or None.
PyBytes(v) == [t |-> "bytes", v |-> v]

PyStr(v) == [t |-> "str", v |-> v]

PyInt(v) == [t |-> "int", v |-> v]

PyObj(v) == [t |-> "object", v |-> v]

PyDict(v) == [t |-> "dict", v |-> v]

PyNone == [t |-> "None", v |-> 0]

\* A dict, in insertion order: a sequence of <<key, value>> pairs.
Has(d, k) == \E i \in 1..Len(d) : d[i][1] = k

Get(d, k) == d[CHOOSE i \in 1..Len(d) : d[i][1] = k][2]

\* d[k] = v: an existing key keeps its place, a new key goes last.
Put(d, k, v) ==
  IF Has(d, k) THEN [i \in 1..Len(d) |-> IF d[i][1] = k THEN <<k, v>> ELSE d[i]]
  ELSE Append(d, <<k, v>>)

\* base64.b64encode: 3 bytes to 4 symbols 0..63, padded with "=" (symbol 64).
RECURSIVE B64Encode(_)
B64Encode(s) ==
  IF Len(s) = 0 THEN <<>>
  ELSE IF Len(s) = 1
       THEN <<s[1] \div 4, (s[1] % 4) * 16, 64, 64>>
  ELSE IF Len(s) = 2
       THEN <<s[1] \div 4, (s[1] % 4) * 16 + (s[2] \div 16), (s[2] % 16) * 4, 64>>
  ELSE <<s[1] \div 4, (s[1] % 4) * 16 + (s[2] \div 16),
         (s[2] % 16) * 4 + (s[3] \div 64), s[3] % 64>> \o B64Encode(Drop(s, 3))

\* base64.b64decode: 4 symbols to 3 bytes; a length that is no multiple of 4
\* is binascii.Error.
RECURSIVE B64DecodeQuads(_)
B64DecodeQuads(s) ==
  IF Len(s) = 0 THEN <<>>
  ELSE LET b1 == s[1] * 4 + (s[2] \div 16)
           b2 == (s[2] % 16) * 16 + (s[3] \div 4)
           b3 == (s[3] % 4) * 64 + s[4]
       IN IF s[3] = 64 THEN <<b1>>
          ELSE IF s[4] = 64 THEN <<b1, b2>>
          ELSE <<b1, b2, b3>> \o B64DecodeQuads(Drop(s, 4))

B64Decode(s) ==
  IF Len(s) % 4 # 0 THEN Raise("binascii.Error") ELSE Ok(B64DecodeQuads(s))

\* ------------------------------------------------------------ AES (aes.py)

\* Stand-in for algorithms.AES(key): a keyed permutation of 16-byte blocks.
AESBlockEncrypt(key, block) ==
  LET k == SumBytes(key)
  IN [i \in 1..Len(block) |-> (block[i] + k + i) % 256]

AESBlockDecrypt(key, block) ==
  LET k == SumBytes(key)
  IN [i \in 1..Len(block) |-> (block[i] + 512 - k - i) % 256]

\* padding.PKCS7(128).padder(): always adds 1..16 bytes, each the pad length.
PKCS7Pad(data) ==
  LET n == BlockBytes - (Len(data) % BlockBytes)
  IN data \o Fill(n, n)

\* padding.PKCS7(128).unpadder(): rejects empty or unaligned input and any
\* tail that is not n copies of n, 1 <= n <= 16.
PKCS7Unpad(data) ==
  IF Len(data) = 0 \/ Len(data) % BlockBytes # 0 THEN Raise("ValueError")
  ELSE LET n == data[Len(data)]
       IN IF n < 1 \/ n > BlockBytes THEN Raise("ValueError")
          ELSE IF \A i \in (Len(data) - n + 1)..Len(data) : data[i] = n
               THEN Ok(SubSeq(data, 1, Len(data) - n))
               ELSE Raise("ValueError")

NumBlocks(data) == (Len(data) + BlockBytes - 1) \div BlockBytes

BlockAt(data, j) ==
  SubSeq(data, (j - 1) * BlockBytes + 1, Min(j * BlockBytes, Len(data)))

RECURSIVE CBCEncryptFrom(_, _, _, _)
CBCEncryptFrom(key, prev, data, j) ==
  IF j > NumBlocks(data) THEN <<>>
  ELSE LET c == AESBlockEncrypt(key, XorBytes(BlockAt(data, j), prev))
       IN c \o CBCEncryptFrom(key, c, data, j + 1)

RECURSIVE CBCDecryptFrom(_, _, _, _)
CBCDecryptFrom(key, prev, data, j) ==
  IF j > NumBlocks(data) THEN <<>>
  ELSE LET c == BlockAt(data, j)
       IN XorBytes(AESBlockDecrypt(key, c), prev)
            \o CBCDecryptFrom(key, c, data, j + 1)

\* CFB128: each keystream block is the encryption of the previous ciphertext block.
RECURSIVE CFBEncryptFrom(_, _, _, _)
CFBEncryptFrom(key, prev, data, j) ==
  IF j > NumBlocks(data) THEN <<>>
  ELSE LET b == BlockAt(data, j)
           c == XorBytes(b, Take(AESBlockEncrypt(key, prev), Len(b)))
       IN c \o CFBEncryptFrom(key, c, data, j + 1)

RECURSIVE CFBDecryptFrom(_, _, _, _)
CFBDecryptFrom(key, prev, data, j) ==
  IF j > NumBlocks(data) THEN <<>>
  ELSE LET c == BlockAt(data, j)
       IN XorBytes(c, Take(AESBlockEncrypt(key, prev), Len(c)))
            \o CFBDecryptFrom(key, c, data, j + 1)

\* OFB: the keystream is the block cipher iterated on the IV.
RECURSIVE OFBFrom(_, _, _, _)
OFBFrom(key, prev, data, j) ==
  IF j > NumBlocks(data) THEN <<>>
  ELSE LET b == BlockAt(data, j)
           o == AESBlockEncrypt(key, prev)
       IN XorBytes(b, Take(o, Len(b))) \o OFBFrom(key, o, data, j + 1)

\* CTR: the counter block is the IV plus the block index, big-endian.
RECURSIVE CounterAdd(_, _)
CounterAdd(ctr, n) ==
  IF ctr = <<>> \/ n = 0 THEN ctr
  ELSE LET last == ctr[Len(ctr)] + n
       IN CounterAdd(SubSeq(ctr, 1, Len(ctr) - 1), last \div 256) \o <<last % 256>>

RECURSIVE CTRFrom(_, _, _, _)
CTRFrom(key, iv, data, j) ==
  IF j > NumBlocks(data) THEN <<>>
  ELSE LET b == BlockAt(data, j)
           o == AESBlockEncrypt(key, CounterAdd(iv, j - 1))
       IN XorBytes(b, Take(o, Len(b))) \o CTRFrom(key, iv, data, j + 1)

AESKeySizes == {128, 192, 256}

AESModes == {"CBC", "CFB", "OFB", "CTR"}

\* AESCipher.__init__: the name and the parameters (both validated).
AESCipher(key_size, mode) ==
  [family |-> "AES", name |-> "AES-" \o ToString(key_size) \o "-" \o mode,
   key_size |-> key_size, mode |-> mode]

\* AESCipher.generate_key: a random key of key_size bits and a random 16-byte IV.
AESCipher_generate_key(self) ==
  {<< <<"key", PyBytes(k)>>, <<"iv", PyBytes(v)>>,
      <<"key_b64", PyStr(B64Encode(k))>>, <<"iv_b64", PyStr(B64Encode(v))>>,
      <<"algorithm", PyStr(self.name)>>, <<"key_size", PyInt(self.key_size)>>,
      <<"mode", PyStr(self.mode)>> >> :
     k \in Urandom(self.key_size \div 8), v \in Urandom(16)}

\* AESCipher._get_cipher: the key must have the declared size; modes.*(iv)
\* takes a 16-byte IV only.
AESCipher_get_cipher_ok(self, key, iv) ==
  Len(key) * 8 = self.key_size /\ Len(iv) = BlockBytes

\* A variant of encrypt_data that pads the plaintext in every mode.
AESCipher_encrypt_data_padall(self, data, key, iv) ==
  IF iv = <<>> THEN Raise("ValueError")
  ELSE IF ~AESCipher_get_cipher_ok(self, key, iv) THEN Raise("ValueError")
  ELSE IF self.mode = "CBC" THEN Ok(CBCEncryptFrom(key, iv, PKCS7Pad(data), 1))
  ELSE IF self.mode = "CFB" THEN Ok(CFBEncryptFrom(key, iv, PKCS7Pad(data), 1))
  ELSE IF self.mode = "OFB" THEN Ok(OFBFrom(key, iv, PKCS7Pad(data), 1))
  ELSE Ok(CTRFrom(key, iv, PKCS7Pad(data), 1))

AESCipher_encrypt_data(self, data, key, iv) ==
  IF iv = <<>> THEN Raise("ValueError")
  ELSE IF ~AESCipher_get_cipher_ok(self, key, iv) THEN Raise("ValueError")
  ELSE IF self.mode = "CBC" THEN Ok(CBCEncryptFrom(key, iv, PKCS7Pad(data), 1))
  ELSE IF self.mode = "CFB" THEN Ok(CFBEncryptFrom(key, iv, data, 1))
  ELSE IF self.mode = "OFB" THEN Ok(OFBFrom(key, iv, data, 1))
  ELSE Ok(CTRFrom(key, iv, data, 1))

\* A variant of decrypt_data that returns the CBC plaintext with its padding.
AESCipher_decrypt_data_padded(self, data, key, iv) ==
  IF iv = <<>> THEN Raise("ValueError")
  ELSE IF ~AESCipher_get_cipher_ok(self, key, iv) THEN Raise("ValueError")
  ELSE IF self.mode = "CBC"
       THEN IF Len(data) % BlockBytes # 0 THEN Raise("ValueError")
            ELSE Ok(CBCDecryptFrom(key, iv, data, 1))
  ELSE IF self.mode = "CFB" THEN Ok(CFBDecryptFrom(key, iv, data, 1))
  ELSE IF self.mode = "OFB" THEN Ok(OFBFrom(key, iv, data, 1))
  ELSE Ok(CTRFrom(key, iv, data, 1))

AESCipher_decrypt_data(self, data, key, iv) ==
  IF iv = <<>> THEN Raise("ValueError")
  ELSE IF ~AESCipher_get_cipher_ok(self, key, iv) THEN Raise("ValueError")
  ELSE IF self.mode = "CBC"
       THEN IF Len(data) % BlockBytes # 0 THEN Raise("ValueError")
            ELSE PKCS7Unpad(CBCDecryptFrom(key, iv, data, 1))
  ELSE IF self.mode = "CFB" THEN Ok(CFBDecryptFrom(key, iv, data, 1))
  ELSE IF self.mode = "OFB" THEN Ok(OFBFrom(key, iv, data, 1))
  ELSE Ok(CTRFrom(key, iv, data, 1))

\* ------------------------------------------ ChaCha20-Poly1305 (chacha20.py)

\* Stand-in for the ChaCha20 keystream under (key, nonce).
ChaChaStream(key, nonce, n) ==
  LET k == SumBytes(key) + 3 * SumBytes(nonce)
  IN [i \in 1..n |-> (k + 5 * i) % 256]

\* Stand-in for the Poly1305 tag over (key, nonce, associated data, ciphertext).
Poly1305Tag(key, nonce, ad, ct) ==
  LET k == SumBytes(key) + SumBytes(nonce) + SumBytes(ad) + SumBytes(ct) + Len(ct)
  IN [j \in 1..TagBytes |-> (k + j) % 256]

ChaCha20Cipher == [family |-> "ChaCha20", name |-> "ChaCha20-Poly1305",
                   key_size |-> 256, mode |-> ""]

\* ChaCha20Poly1305(key) takes a 32-byte key only.
ChaChaKeyOk(key) == Len(key) = 32

\* ChaCha20Cipher.encrypt_data; nonce is the os.urandom(12) it draws.
\* Every exception leaves as RuntimeError.
ChaCha20Cipher_encrypt_data(data, key, associated_data, nonce) ==
  IF ~ChaChaKeyOk(key) THEN Raise("RuntimeError")
  ELSE LET body == XorBytes(data, ChaChaStream(key, nonce, Len(data)))
       IN Ok(nonce \o body \o Poly1305Tag(key, nonce, associated_data, body))

\* cipher.decrypt(nonce, ciphertext, associated_data): InvalidTag when the
\* ciphertext is shorter than a tag or the tag does not verify.
ChaChaTagOk(key, nonce, associated_data, ciphertext) ==
  /\ Len(ciphertext) >= TagBytes
  /\ LET body == Take(ciphertext, Len(ciphertext) - TagBytes)
     IN Drop(ciphertext, Len(ciphertext) - TagBytes)
          = Poly1305Tag(key, nonce, associated_data, body)

\* A variant of decrypt_data whose generic handler also catches InvalidTag.
ChaCha20Cipher_decrypt_data_generic(data, key, associated_data) ==
  IF ~ChaChaKeyOk(key) THEN Raise("RuntimeError")
  ELSE LET nonce == Take(data, NonceBytes)
           ciphertext == Drop(data, NonceBytes)
       IN IF Len(nonce) # NonceBytes THEN Raise("RuntimeError")
          ELSE IF ~ChaChaTagOk(key, nonce, associated_data, ciphertext)
               THEN Raise("RuntimeError")
          ELSE LET body == Take(ciphertext, Len(ciphertext) - TagBytes)
               IN Ok(XorBytes(body, ChaChaStream(key, nonce, Len(body))))

\* ChaCha20Cipher.decrypt_data: InvalidTag leaves as ValueError, every other
\* exception as RuntimeError.
ChaCha20Cipher_decrypt_data(data, key, associated_data) ==
  IF ~ChaChaKeyOk(key) THEN Raise("RuntimeError")
  ELSE LET nonce == Take(data, NonceBytes)
           ciphertext == Drop(data, NonceBytes)
       IN IF Len(nonce) # NonceBytes THEN Raise("RuntimeError")
          ELSE IF ~ChaChaTagOk(key, nonce, associated_data, ciphertext)
               THEN Raise("ValueError")
          ELSE LET body == Take(ciphertext, Len(ciphertext) - TagBytes)
               IN Ok(XorBytes(body, ChaChaStream(key, nonce, Len(body))))

ChaCha20Cipher_generate_key ==
  {<< <<"algorithm", PyStr(ChaCha20Cipher.name)>>, <<"key", PyBytes(k)>>,
      <<"key_b64", PyStr(B64Encode(k))>>, <<"key_format", PyStr("base64")>>,
      <<"meta", PyDict(<< <<"key_size", PyInt(ChaCha20Cipher.key_size)>> >>)>> >> : k \in Urandom(32)}

\* ------------------------------------------------------------ RSA (rsa.py)

\* An RSA key object: its size in bits and its modulus (a stand-in, 1..255);
\* the private key of a pair has the public key's size and modulus.
RSAKey(bits, n, private) == [bits |-> bits, n |-> n, private |-> private]

\* No key object given (the keyword argument is absent).
NoKey == RSAKey(0, 0, FALSE)

\* rsa.generate_private_key draws one of these moduli.
RSAModuli == {3, 5}

\* Stand-in for the PEM serialisations (public_bytes / private_bytes with
\* NoEncryption) and for load_pem_public_key / load_pem_private_key.
PemOf(key) ==
  <<45, IF key.private THEN 83 ELSE 80, key.bits \div 256, key.bits % 256, key.n>>

LoadPem(pem) == RSAKey(pem[3] * 256 + pem[4], pem[5], pem[2] = 83)

\* Stand-in for the RSA permutation under the public and the private key.
RSAEP(key, em) == [i \in 1..Len(em) |-> (em[i] + key.n) % 256]

RSADP(key, c) == [i \in 1..Len(c) |-> (c[i] + 256 - key.n) % 256]

\* SHA-256 of the empty label.
LHash == Ramp(HashBytes, 226)

\* padding.OAEP: EM = 00 || seed || masked (lHash || 00.. || 01 || M), of the
\* key's length; a message longer than k - 2 * hLen - 2 is ValueError.
OAEPEncrypt(key, data, seed) ==
  LET k == key.bits \div 8
      ps == k - 2 * HashBytes - 2 - Len(data)
  IN IF ps < 0 THEN Raise("ValueError")
     ELSE LET db == LHash \o Fill(ps, 0) \o <<1>> \o data
              mask == SumBytes(seed)
              masked == [i \in 1..Len(db) |-> (db[i] + mask) % 256]
          IN Ok(RSAEP(key, <<0>> \o seed \o masked))

\* The message after the first 01 that follows the zero padding, or failure.
OAEPSplit(db, i) ==
  LET nonzero == {j \in i..Len(db) : db[j] # 0}
  IN IF nonzero = {} THEN Raise("ValueError")
     ELSE LET first == CHOOSE j \in nonzero : \A h \in nonzero : j <= h
          IN IF db[first] = 1 THEN Ok(Drop(db, first)) ELSE Raise("ValueError")

\* private_key.decrypt with OAEP: ValueError when the ciphertext has not the
\* key's length or the encoding does not check.
OAEPDecrypt(key, c) ==
  IF Len(c) # key.bits \div 8 \/ Len(c) < 2 * HashBytes + 2 THEN Raise("ValueError")
  ELSE LET em == RSADP(key, c)
           seed == SubSeq(em, 2, HashBytes + 1)
           masked == Drop(em, HashBytes + 1)
           mask == SumBytes(seed)
           db == [i \in 1..Len(masked) |-> (masked[i] + 256 - mask) % 256]
       IN IF em[1] # 0 \/ Take(db, HashBytes) # LHash THEN Raise("ValueError")
          ELSE OAEPSplit(db, HashBytes + 1)

\* RSACipher.__init__ (key sizes below 1024 are refused).
RSACipher(key_size) ==
  [family |-> "RSA", name |-> "RSA-" \o ToString(key_size),
   key_size |-> key_size, mode |-> ""]

\* RSACipher.generate_key without a passphrase: the two key objects, their
\* PEM texts, the algorithm name and the key size.
RSACipher_generate_key(self) ==
  {<< <<"private_key", PyObj(RSAKey(self.key_size, n, TRUE))>>,
      <<"public_key", PyObj(RSAKey(self.key_size, n, FALSE))>>,
      <<"private_pem", PyBytes(PemOf(RSAKey(self.key_size, n, TRUE)))>>,
      <<"public_pem", PyBytes(PemOf(RSAKey(self.key_size, n, FALSE)))>>,
      <<"algorithm", PyStr(self.name)>>, <<"key_size", PyInt(self.key_size)>> >> :
     n \in RSAModuli}

\* RSACipher.encrypt_data: public_key or public_pem must be given; data
\* longer than key_size // 8 - 2 * 32 - 2 is refused; seed is OAEP's randomness.
RSACipher_encrypt_data(self, data, public_key, public_pem, seed) ==
  IF public_key = NoKey /\ public_pem = <<>> THEN Raise("ValueError")
  ELSE LET pk == IF public_key = NoKey THEN LoadPem(public_pem) ELSE public_key
           max_data_length == self.key_size \div 8 - 2 * HashBytes - 2
       IN IF Len(data) > max_data_length THEN Raise("ValueError")
          ELSE OAEPEncrypt(pk, data, seed)

\* RSACipher.decrypt_data: private_key or private_pem must be given.
RSACipher_decrypt_data(self, data, private_key, private_pem) ==
  IF private_key = NoKey /\ private_pem = <<>> THEN Raise("ValueError")
  ELSE LET sk == IF private_key = NoKey THEN LoadPem(private_pem) ELSE private_key
       IN OAEPDecrypt(sk, data)

\* ------------------------------------------- registry (crypto_factory.py)

\* CryptoFactory._register_algorithms: the ciphers the registry constructs.
RegisteredCiphers ==
  {AESCipher(ks, m) : ks \in AESKeySizes, m \in {"CBC", "CFB", "CTR"}}
    \cup {RSACipher(b) : b \in {1024, 2048, 4096}}
    \cup {ChaCha20Cipher}

\* generate_key of the cipher, whatever its class.
GenerateKey(self) ==
  IF self.family = "AES" THEN AESCipher_generate_key(self)
  ELSE IF self.family = "RSA" THEN RSACipher_generate_key(self)
  ELSE ChaCha20Cipher_generate_key

\* The keyword arguments the ciphers read: absent ones are empty / NoKey.
NoKwargs ==
  [iv |-> <<>>, associated_data |-> <<>>, public_key |-> NoKey,
   public_pem |-> <<>>, private_key |-> NoKey, private_pem |-> <<>>]

\* The arguments a caller takes out of key material K: key and iv for the
\* symmetric ciphers, the key objects for RSA.
KeyArg(K) == IF Has(K, "key") THEN Get(K, "key").v ELSE <<>>

KwargsOf(K) ==
  [NoKwargs EXCEPT
     !.iv = IF Has(K, "iv") THEN Get(K, "iv").v ELSE <<>>,
     !.public_key = IF Has(K, "public_key") THEN Get(K, "public_key").v ELSE NoKey,
     !.private_key = IF Has(K, "private_key") THEN Get(K, "private_key").v ELSE NoKey]

\* The randomness one encrypt_data call draws: the nonce of ChaCha20, the
\* OAEP seed of RSA, none for AES.
Randomness(self) ==
  IF self.family = "ChaCha20" THEN {Fill(NonceBytes, 4), Ramp(NonceBytes, 9)}
  ELSE IF self.family = "RSA" THEN {Fill(HashBytes, 6), Ramp(HashBytes, 11)}
  ELSE {<<>>}

\* self.encrypt_data(data, key, **kwargs), dispatched on the cipher's class.
EncryptData(self, data, key, kw, rnd) ==
  IF self.family = "AES" THEN AESCipher_encrypt_data(self, data, key, kw.iv)
  ELSE IF self.family = "RSA"
       THEN RSACipher_encrypt_data(self, data, kw.public_key, kw.public_pem, rnd)
  ELSE ChaCha20Cipher_encrypt_data(data, key, kw.associated_data, rnd)

\* self.decrypt_data(data, key, **kwargs), dispatched on the cipher's class.
DecryptData(self, data, key, kw) ==
  IF self.family = "AES" THEN AESCipher_decrypt_data(self, data, key, kw.iv)
  ELSE IF self.family = "RSA"
       THEN RSACipher_decrypt_data(self, data, kw.private_key, kw.private_pem)
  ELSE ChaCha20Cipher_decrypt_data(data, key, kw.associated_data)

\* ------------------------------------------------------------------- state

VARIABLES
  data,    \* the direct encrypt_data / decrypt_data call in progress
  file,    \* the encrypt_file / decrypt_file call in progress
  disk,    \* the files of that call: input, container, temporary, output
  store,   \* KeyManager.storage_dir: file name -> content
  km,      \* the last KeyManager call and what it returned
  par,     \* two save_key calls running side by side
  worker,  \* the EncryptionWorker thread
  batch,   \* the BatchProcessor.process_files call
  factory, \* the CryptoFactory and the create_algorithm calls made on it
  monitor  \* the FileMonitor, its observers and its processing thread

vars == <<data, file, disk, store, km, par, worker, batch, factory, monitor>>

DataIdle ==
  [stage |-> "idle", cipher |-> ChaCha20Cipher, K |-> <<>>, P |-> <<>>,
   enc |-> Ok(<<>>), ct |-> <<>>, tamper |-> "none", dec |-> Ok(<<>>)]

\* A path with no file behind it.
NoFile == <<-1>>

FileIdle ==
  [stage |-> "idle", cipher |-> ChaCha20Cipher, K |-> <<>>, decK |-> <<>>,
   chunk_size |-> 0, inner |-> ChaCha20Cipher, key |-> <<>>, kw |-> NoKwargs,
   src |-> "plain", dst |-> "enc", pos |-> 0, processed_size |-> 0,
   progress |-> <<>>, ivs |-> <<>>, innerRet |-> "none",
   encRet |-> "none", decRet |-> "none"]

DiskIdle == [f \in {"plain", "enc", "enc.temp", "dec"} |-> NoFile]

\* The storage directory right after KeyManager.__init__ created it: empty.
StoreIdle == [p \in {} |-> 0]

KmIdle ==
  [op |-> "none", name |-> <<>>, password |-> PyNone, ret |-> PyNone,
   found |-> FALSE, same |-> TRUE]

\* No save_key call is running side by side with another.
ParIdle == [pc |-> "none", call |-> <<>>, at |-> <<>>, loaded |-> <<>>]

\* The __init__ of the worker threads: abort = False, the thread not
\* started.  kind tells the class; started, error and finished count the
\* emissions of the signals.
WorkerIdle ==
  [pc |-> "none", kind |-> "none", files |-> <<>>, algorithm |-> ChaCha20Cipher,
   key |-> PyNone, delete_original |-> FALSE, chunk_size |-> 0, idx |-> 0,
   abort |-> FALSE, processed_files |-> 0, results |-> <<>>, removed |-> {},
   started |-> 0, error |-> 0, finished |-> 0]

\* BatchProcessor.__init__: stop_requested = False, nothing processed.
BatchIdle ==
  [pc |-> "none", file_paths |-> <<>>, future |-> <<>>, stop_requested |-> FALSE,
   processed_files |-> 0, failed_files |-> <<>>, ret |-> <<>>]

\* CryptoFactory.__init__: the built-in ciphers are registered.
FactoryIdle == [algorithms |-> RegisteredCiphers, calls |-> <<>>]

\* FileMonitor.__init__: no observer, no handler, an empty queue, no
\* processing thread.  observers and auto_process_handlers are the dicts
\* (entries in insertion order), live the observer threads started and not
\* stopped, tpc the place of the processing thread, cpc the place of the
\* caller; ids, stops, stopped and late are the history of the calls: the
\* ids returned, whether a stop was made, the handlers whose stop has
\* returned, and the handlers called after that.
MonitorIdle ==
  [clock |-> 0, observers |-> <<>>, auto_process_handlers |-> <<>>,
   live |-> {}, event_queue |-> <<>>, is_running |-> FALSE,
   tpc |-> "none", event |-> <<>>, todo |-> <<>>, size |-> 0, cur |-> 0,
   cpc |-> "none", pending |-> {},
   ids |-> <<>>, stops |-> FALSE, stopped |-> {}, late |-> {}]

Init ==
  /\ data = DataIdle
  /\ file = FileIdle
  /\ disk = DiskIdle
  /\ store = StoreIdle
  /\ km = KmIdle
  /\ par = ParIdle
  /\ worker = WorkerIdle
  /\ batch = BatchIdle
  /\ factory = FactoryIdle
  /\ monitor = MonitorIdle

\* ------------------------------------------- encrypt_data / decrypt_data

\* The plaintexts handed to encrypt_data: every length up to MaxDataLen and,
\* for RSA, the lengths around key_size // 8 - 2 * 32 - 2.
DataLens(self) ==
  (0..MaxDataLen) \cup
    (IF self.family = "RSA"
     THEN LET m == self.key_size \div 8 - 2 * HashBytes - 2 IN (m - 1)..(m + MaxOver)
     ELSE {})

DataInputs(self) == {Fill(n, 1) : n \in DataLens(self)} \cup {Ramp(n, 64) : n \in DataLens(self)}

\* ct = cipher.encrypt_data(P, key, **kwargs) with freshly generated key material.
DataEncrypt ==
  /\ data.stage = "idle"
  /\ \E self \in RegisteredCiphers :
       \E K \in GenerateKey(self), P \in DataInputs(self), rnd \in Randomness(self) :
         LET r == EncryptData(self, P, KeyArg(K), KwargsOf(K), rnd)
         IN data' = [stage |-> "encrypted", cipher |-> self, K |-> K, P |-> P,
                     enc |-> r, ct |-> r.data, tamper |-> "none", dec |-> Ok(<<>>)]
  /\ UNCHANGED <<file, disk, store, km, par, worker, batch, factory, monitor>>

FlipBit(s, i, b) == [s EXCEPT ![i] = Xor(s[i], 2 ^ b)]

\* One bit of a ChaCha20-Poly1305 ciphertext (nonce, body or tag) is flipped
\* between encryption and decryption.
DataFlipBit ==
  /\ data.stage = "encrypted" /\ data.enc.ok
  /\ data.cipher.family = "ChaCha20" /\ Len(data.P) <= MaxTamperLen
  /\ \E i \in 1..Len(data.ct), b \in 0..7 :
       data' = [data EXCEPT !.stage = "tampered", !.ct = FlipBit(data.ct, i, b),
                            !.tamper = "flip"]
  /\ UNCHANGED <<file, disk, store, km, par, worker, batch, factory, monitor>>

\* A ChaCha20-Poly1305 ciphertext is cut short of its nonce.
DataTruncate ==
  /\ data.stage = "encrypted" /\ data.enc.ok
  /\ data.cipher.family = "ChaCha20" /\ Len(data.P) <= MaxTamperLen
  /\ \E n \in 0..(NonceBytes - 1) :
       data' = [data EXCEPT !.stage = "tampered", !.ct = Take(data.ct, n),
                            !.tamper = "cut"]
  /\ UNCHANGED <<file, disk, store, km, par, worker, batch, factory, monitor>>

\* cipher.decrypt_data(ct, key, **kwargs) under the same key material.
DataDecrypt ==
  /\ data.stage \in {"encrypted", "tampered"} /\ data.enc.ok
  /\ data' = [data EXCEPT !.stage = "decrypted",
                !.dec = DecryptData(data.cipher, data.ct, KeyArg(data.K), KwargsOf(data.K))]
  /\ UNCHANGED <<file, disk, store, km, par, worker, batch, factory, monitor>>

NextData == DataEncrypt \/ DataFlipBit \/ DataTruncate \/ DataDecrypt

SpecData == Init /\ [][NextData]_vars

\* The longest message RSA's encrypt_data accepts: key_size // 8 - 2 * 32 - 2.
OAEPLimit(self) == self.key_size \div 8 - 2 * HashBytes - 2

\* C4 as stated: for every registered algorithm and a freshly generated key,
\* encrypt_data succeeds on every byte string P and decrypt_data returns P.
C4_RoundTripAnyData ==
  /\ data.stage = "encrypted" => data.enc.ok
  /\ data.stage = "decrypted" /\ data.tamper = "none" => data.dec = Ok(data.P)

\* C4 amended: the same for every P that, for RSA, is no longer than the OAEP
\* limit key_size // 8 - 66; a longer P is refused by RSA's encrypt_data with
\* ValueError (and is never turned into a ciphertext).
C4_RoundTripData ==
  /\ data.stage = "encrypted" =>
       IF data.cipher.family = "RSA" /\ Len(data.P) > OAEPLimit(data.cipher)
       THEN data.enc = Raise("ValueError")
       ELSE data.enc.ok
  /\ data.stage = "decrypted" /\ data.tamper = "none" => data.dec = Ok(data.P)

\* C4's case: an RSA plaintext of exactly the OAEP limit came back from decrypt_data.
C4_Witness ==
  /\ data.stage = "decrypted" /\ data.tamper = "none"
  /\ data.cipher.family = "RSA" /\ Len(data.P) = OAEPLimit(data.cipher)
  /\ data.dec = Ok(data.P)

\* C5: decrypt_data of a ChaCha20-Poly1305 ciphertext with one bit flipped
\* (nonce, body or tag) returns no plaintext and raises the ValueError of the
\* tag failure; a failure that is no tag failure raises RuntimeError instead.
C5_BitFlipIsIntegrityError ==
  data.stage = "decrypted" /\ data.cipher.family = "ChaCha20" =>
    /\ data.tamper = "flip" => data.dec = Raise("ValueError")
    /\ data.tamper = "cut" => data.dec = Raise("RuntimeError")

\* C5's case: a ciphertext with a flipped tag bit was handed to decrypt_data.
C5_Witness ==
  /\ data.stage = "decrypted" /\ data.tamper = "flip"
  /\ data.P # <<>>
  /\ Take(data.ct, Len(data.ct) - TagBytes) = Take(data.enc.data, Len(data.ct) - TagBytes)
  /\ data.dec.err = "ValueError"

\* ------------------------------------- encrypt_file / decrypt_file pipeline

\* The ciphers whose file operations are run: the registered ones and the
\* OFB mode AESCipher also accepts.
FileCiphers == RegisteredCiphers \cup {AESCipher(ks, "OFB") : ks \in AESKeySizes}

ChunkSizes == {16, 32}

FileContents == {Fill(n, 1) : n \in 0..MaxFileLen} \cup {Ramp(n, 64) : n \in 0..MaxFileLen}

\* infile.read(chunk_size) at the current position.
ReadChunk(content, pos, chunk_size) ==
  SubSeq(content, pos + 1, Min(pos + chunk_size, Len(content)))

\* len(x).to_bytes(4, byteorder='big') and int.from_bytes(x, byteorder='big').
ToBytes4(n) ==
  <<(n \div 16777216) % 256, (n \div 65536) % 256, (n \div 256) % 256, n % 256>>

FromBytes4(b) == b[1] * 16777216 + b[2] * 65536 + b[3] * 256 + b[4]

\* A variant of the tail of encrypt_file that wraps the IV before the key.
RSAWrap_ivfirst(f, d, seed) ==
  LET key_data == f.kw.iv \o f.key
      encrypted_key == OAEPEncrypt(KwargsOf(f.K).public_key, key_data, seed)
  IN IF encrypted_key.ok
     THEN <<"True",
            [d EXCEPT !["enc"] = ToBytes4(Len(encrypted_key.data))
                                   \o encrypted_key.data \o d["enc.temp"],
                      !["enc.temp"] = NoFile]>>
     ELSE <<"False", [d EXCEPT !["enc.temp"] = NoFile]>>

\* The tail of RSACipher.encrypt_file, after the inner AES stream was written
\* to output + ".temp" (its result is not looked at): wrap key + iv under the
\* public key, write [length][wrapped][stream], remove the temporary, return
\* True; an exception removes the temporary and returns False.
RSAWrap(f, d, seed) ==
  LET key_data == f.key \o f.kw.iv
      encrypted_key == OAEPEncrypt(KwargsOf(f.K).public_key, key_data, seed)
  IN IF encrypted_key.ok
     THEN <<"True",
            [d EXCEPT !["enc"] = ToBytes4(Len(encrypted_key.data))
                                   \o encrypted_key.data \o d["enc.temp"],
                      !["enc.temp"] = NoFile]>>
     ELSE <<"False", [d EXCEPT !["enc.temp"] = NoFile]>>

\* What ends encrypt_file once the chunk loop is over with inner result ret.
EncryptReturn(f, d, ret, seed) ==
  IF f.cipher.family = "RSA" THEN RSAWrap(f, d, seed) ELSE <<ret, d>>

\* progress = processed_size / total_size * 100, as the fraction it is.
ProgressOf_fraction(processed_size, total_size) ==
  [num |-> processed_size, den |-> total_size]

ProgressOf(processed_size, total_size) ==
  [num |-> processed_size * 100, den |-> total_size]

\* encrypt_file is entered on a new input file with fresh key material: the
\* input and the output are opened (the output is created empty).  RSA
\* draws an AES-256-CBC session key and streams into output + ".temp".
FileEncryptStart ==
  /\ file.stage = "idle"
  /\ \E self \in FileCiphers :
       \E K \in GenerateKey(self), content \in FileContents, cs \in ChunkSizes :
         IF self.family = "RSA"
         THEN \E S \in AESCipher_generate_key(AESCipher(256, "CBC")) :
                /\ file' = [FileIdle EXCEPT !.stage = "encrypting", !.cipher = self,
                              !.K = K, !.chunk_size = cs,
                              !.inner = AESCipher(256, "CBC"),
                              !.key = KeyArg(S), !.kw = KwargsOf(S),
                              !.src = "plain", !.dst = "enc.temp"]
                /\ disk' = [DiskIdle EXCEPT !["plain"] = content, !["enc.temp"] = <<>>]
         ELSE /\ file' = [FileIdle EXCEPT !.stage = "encrypting", !.cipher = self,
                            !.K = K, !.chunk_size = cs, !.inner = self,
                            !.key = KeyArg(K), !.kw = KwargsOf(K),
                            !.src = "plain", !.dst = "enc"]
              /\ disk' = [DiskIdle EXCEPT !["plain"] = content, !["enc"] = <<>>]
  /\ UNCHANGED <<data, store, km, par, worker, batch, factory, monitor>>

\* One turn of the loop of CryptoBase.encrypt_file: read a chunk, encrypt it,
\* write it, report the progress.  An exception of encrypt_data ends the call
\* with False.  progress is the list of values the callback was called with,
\* ivs the IV or nonce of each encrypt_data call, innerRet what the
\* CryptoBase call itself returned (for RSA, the inner AES call).
FileEncryptChunk ==
  /\ file.stage = "encrypting"
  /\ file.pos < Len(disk[file.src])
  /\ \E rnd \in Randomness(file.inner), seed \in Randomness(file.cipher) :
       LET chunk == ReadChunk(disk[file.src], file.pos, file.chunk_size)
           encrypted_chunk == EncryptData(file.inner, chunk, file.key, file.kw, rnd)
       IN IF encrypted_chunk.ok
          THEN /\ disk' = [disk EXCEPT ![file.dst] = @ \o encrypted_chunk.data]
               /\ file' = [file EXCEPT !.pos = @ + Len(chunk),
                              !.processed_size = @ + Len(chunk),
                              !.progress = Append(@, ProgressOf(file.processed_size + Len(chunk),
                                                                Len(disk[file.src]))),
                              !.ivs = Append(@, IF file.inner.family = "AES"
                                                THEN file.kw.iv ELSE rnd)]
          ELSE LET e == EncryptReturn(file, disk, "False", seed)
               IN /\ disk' = e[2]
                  /\ file' = [file EXCEPT !.stage = "encrypted", !.encRet = e[1],
                                          !.innerRet = "False"]
  /\ UNCHANGED <<data, store, km, par, worker, batch, factory, monitor>>

\* The read returns no chunk: the loop ends and encrypt_file returns True.
FileEncryptEnd ==
  /\ file.stage = "encrypting"
  /\ file.pos >= Len(disk[file.src])
  /\ \E seed \in Randomness(file.cipher) :
       LET e == EncryptReturn(file, disk, "True", seed)
       IN /\ disk' = e[2]
          /\ file' = [file EXCEPT !.stage = "encrypted", !.encRet = e[1],
                                  !.innerRet = "True"]
  /\ UNCHANGED <<data, store, km, par, worker, batch, factory, monitor>>

\* The key material decrypt_file is given: the one of the encryption; for
\* RSA also the private keys of the other pairs, of every size.
DecryptKeys(f) ==
  IF f.cipher.family = "RSA"
  THEN UNION {GenerateKey(RSACipher(b)) : b \in {1024, 2048, 4096}}
  ELSE {f.K}

\* A variant of the head of decrypt_file that takes key and iv from the raw
\* RSA decryption, without the OAEP check.
RSAUnwrap_unchecked(container, private_key) ==
  LET key_length_bytes == Take(container, 4)
  IN IF Len(key_length_bytes) # 4 THEN Raise("ValueError")
     ELSE LET key_length == FromBytes4(key_length_bytes)
              encrypted_key == Take(Drop(container, 4), key_length)
          IN IF Len(encrypted_key) # key_length THEN Raise("ValueError")
             ELSE LET d == Drop(RSADP(private_key, encrypted_key), key_length - 48)
                  IN Ok([aes_key |-> Take(d, Len(d) - 16), aes_iv |-> Drop(d, Len(d) - 16),
                         rest |-> Drop(container, 4 + key_length)])

\* The head of RSACipher.decrypt_file: read the length and the wrapped
\* session, unwrap it with the private key, split key and iv, build the AES
\* cipher, copy the rest of the container to input + ".temp".
RSAUnwrap(container, private_key) ==
  LET key_length_bytes == Take(container, 4)
  IN IF Len(key_length_bytes) # 4 THEN Raise("ValueError")
     ELSE LET key_length == FromBytes4(key_length_bytes)
              encrypted_key == Take(Drop(container, 4), key_length)
          IN IF Len(encrypted_key) # key_length THEN Raise("ValueError")
             ELSE LET d == OAEPDecrypt(private_key, encrypted_key)
                  IN IF ~d.ok THEN d
                     ELSE LET aes_key == Take(d.data, Len(d.data) - 16)
                              aes_iv == Drop(d.data, Len(d.data) - 16)
                          IN IF Len(aes_key) * 8 \notin AESKeySizes
                             THEN Raise("ValueError")
                             ELSE Ok([aes_key |-> aes_key, aes_iv |-> aes_iv,
                                      rest |-> Drop(container, 4 + key_length)])

\* decrypt_file is entered on the container written by encrypt_file.
FileDecryptStart ==
  /\ file.stage = "encrypted"
  /\ disk["enc"] # NoFile
  /\ \E D \in DecryptKeys(file) :
       IF file.cipher.family = "RSA"
       THEN LET u == RSAUnwrap(disk["enc"], KwargsOf(D).private_key)
            IN IF u.ok
               THEN /\ file' = [file EXCEPT !.stage = "decrypting", !.decK = D,
                                  !.inner = AESCipher(Len(u.data.aes_key) * 8, "CBC"),
                                  !.key = u.data.aes_key,
                                  !.kw = [NoKwargs EXCEPT !.iv = u.data.aes_iv],
                                  !.src = "enc.temp", !.dst = "dec",
                                  !.pos = 0, !.processed_size = 0,
                                  !.progress = <<>>, !.innerRet = "none"]
                    /\ disk' = [disk EXCEPT !["enc.temp"] = u.data.rest, !["dec"] = <<>>]
               ELSE /\ file' = [file EXCEPT !.stage = "decrypted", !.decK = D,
                                            !.decRet = "False", !.pos = 0,
                                            !.processed_size = 0,
                                            !.progress = <<>>, !.innerRet = "none"]
                    /\ disk' = disk
       ELSE /\ file' = [file EXCEPT !.stage = "decrypting", !.decK = D,
                          !.inner = file.cipher, !.key = KeyArg(D), !.kw = KwargsOf(D),
                          !.src = "enc", !.dst = "dec", !.pos = 0, !.processed_size = 0,
                          !.progress = <<>>, !.innerRet = "none"]
            /\ disk' = [disk EXCEPT !["dec"] = <<>>]
  /\ UNCHANGED <<data, store, km, par, worker, batch, factory, monitor>>

\* What ends decrypt_file once the chunk loop is over with inner result ret:
\* RSACipher.decrypt_file does not look at it, removes the temporary and
\* returns True.
DecryptReturn(f, d, ret) ==
  IF f.cipher.family = "RSA"
  THEN <<"True", [d EXCEPT !["enc.temp"] = NoFile]>>
  ELSE <<ret, d>>

\* A variant of the loop of decrypt_file that drops a chunk decrypt_data
\* fails on and goes on with the next one.
FileDecryptChunk_resume ==
  /\ file.stage = "decrypting"
  /\ file.pos < Len(disk[file.src])
  /\ LET chunk == ReadChunk(disk[file.src], file.pos, file.chunk_size)
         decrypted_chunk == DecryptData(file.inner, chunk, file.key, file.kw)
     IN /\ disk' = [disk EXCEPT ![file.dst] =
                      @ \o (IF decrypted_chunk.ok THEN decrypted_chunk.data ELSE <<>>)]
        /\ file' = [file EXCEPT !.pos = @ + Len(chunk),
                       !.processed_size = @ + Len(chunk),
                       !.progress = Append(@, ProgressOf(file.processed_size + Len(chunk),
                                                         Len(disk[file.src])))]
  /\ UNCHANGED <<data, store, km, par, worker, batch, factory, monitor>>

\* One turn of the loop of CryptoBase.decrypt_file: read a chunk, decrypt it,
\* write it, report the progress.  An exception of decrypt_data ends the call
\* with False.
FileDecryptChunk ==
  /\ file.stage = "decrypting"
  /\ file.pos < Len(disk[file.src])
  /\ LET chunk == ReadChunk(disk[file.src], file.pos, file.chunk_size)
         decrypted_chunk == DecryptData(file.inner, chunk, file.key, file.kw)
     IN IF decrypted_chunk.ok
        THEN /\ disk' = [disk EXCEPT ![file.dst] = @ \o decrypted_chunk.data]
             /\ file' = [file EXCEPT !.pos = @ + Len(chunk),
                            !.processed_size = @ + Len(chunk),
                            !.progress = Append(@, ProgressOf(file.processed_size + Len(chunk),
                                                              Len(disk[file.src])))]
        ELSE LET e == DecryptReturn(file, disk, "False")
             IN /\ disk' = e[2]
                /\ file' = [file EXCEPT !.stage = "decrypted", !.decRet = e[1],
                                        !.innerRet = "False"]
  /\ UNCHANGED <<data, store, km, par, worker, batch, factory, monitor>>

\* The read returns no chunk: the loop ends and decrypt_file returns True.
FileDecryptEnd ==
  /\ file.stage = "decrypting"
  /\ file.pos >= Len(disk[file.src])
  /\ LET e == DecryptReturn(file, disk, "True")
     IN /\ disk' = e[2]
        /\ file' = [file EXCEPT !.stage = "decrypted", !.decRet = e[1],
                                !.innerRet = "True"]
  /\ UNCHANGED <<data, store, km, par, worker, batch, factory, monitor>>

NextFile ==
  \/ FileEncryptStart
  \/ FileEncryptChunk
  \/ FileEncryptEnd
  \/ FileDecryptStart
  \/ FileDecryptChunk
  \/ FileDecryptEnd

SpecFile == Init /\ [][NextFile]_vars

\* The private key given to decrypt_file is the one of the encryption's pair.
MatchingKey == KwargsOf(file.decK).private_key = KwargsOf(file.K).private_key

\* C1 (the code fails it): for AES-CBC with a fresh key and IV, encrypt_file
\* and then decrypt_file with the same key, IV and chunk size both return True
\* and the output file equals the input file, whatever the input size.
C1_AESCBCFileRoundTrip ==
  file.cipher.family = "AES" /\ file.cipher.mode = "CBC" =>
    /\ file.stage \in {"encrypted", "decrypting", "decrypted"} => file.encRet = "True"
    /\ file.stage = "decrypted" => file.decRet = "True" /\ disk["dec"] = disk["plain"]

\* C2 (the code fails it): a file encrypted by RSACipher.encrypt_file and
\* decrypted by RSACipher.decrypt_file under the matching private key, with the
\* same chunk size, equals the original, whatever its size.
C2_RSAFileRoundTrip ==
  file.cipher.family = "RSA" /\ file.stage = "decrypted" /\ MatchingKey =>
    disk["dec"] = disk["plain"]

\* C3: RSACipher.decrypt_file of a container under a private key that is not
\* the one of the encryption's pair does not return True and leaves no output
\* file with anything but the original plaintext in it.
C3_WrongPrivateKeyFails ==
  file.cipher.family = "RSA" /\ file.stage \in {"decrypting", "decrypted"} /\ ~MatchingKey =>
    /\ file.stage = "decrypted" /\ file.decRet = "False"
    /\ disk["dec"] = NoFile \/ disk["dec"] = disk["plain"]

\* C3's case: decrypt_file returned under a private key of the same size but
\* of another pair, on the container of a non-empty file.
C3_Witness ==
  /\ file.cipher.family = "RSA" /\ file.stage = "decrypted" /\ ~MatchingKey
  /\ KwargsOf(file.decK).private_key.bits = file.cipher.key_size
  /\ Len(disk["plain"]) > 0
  /\ file.decRet = "False"

\* C14: during file encryption no two encrypt_data calls under one key use
\* the same IV or nonce: the value of each call is freshly drawn, it is not
\* the "iv" persisted in the key record, and the AES calls of one file (the
\* inner AES calls of RSA included) do not repeat an IV from chunk to chunk.
\* The nonces ChaCha20 draws per call are left out of the comparison between
\* chunks: two draws of os.urandom are not compared here.
C14_FreshIVPerEncryption ==
  \A i \in 1..Len(file.ivs) :
    /\ Has(file.K, "iv") => file.ivs[i] # Get(file.K, "iv").v
    /\ file.inner.family = "AES" =>
         \A j \in 1..Len(file.ivs) : i # j => file.ivs[i] # file.ivs[j]

\* C15: AES-CBC encrypt_file pads once, at the end of the stream, and chains
\* every chunk from the previous one: the stream written for an n-byte input
\* is the CBC encryption of the whole input, 16 * (n \div 16 + 1) bytes long,
\* whatever the chunk size.
C15_CBCPadsOnce ==
  (/\ file.cipher.family = "AES" /\ file.cipher.mode = "CBC"
   /\ file.stage = "encrypted" /\ file.encRet = "True")
  => /\ Len(disk["enc"]) = BlockBytes * (Len(disk["plain"]) \div BlockBytes + 1)
     /\ disk["enc"] = AESCipher_encrypt_data(file.cipher, disk["plain"],
                                             file.key, file.kw.iv).data

\* C17: in the streaming encrypt_file/decrypt_file of CryptoBase, when
\* encrypt_data or decrypt_data fails on the chunk that is read next, the file
\* operation ends there: that chunk and the chunks after it are not written,
\* the position does not move on, and the call returns False.
C17_ChunkFailureAborts ==
  [][(/\ file.cipher.family # "RSA"
      /\ file.stage \in {"encrypting", "decrypting"}
      /\ file.pos < Len(disk[file.src])
      /\ file' # file
      /\ LET chunk == ReadChunk(disk[file.src], file.pos, file.chunk_size)
         IN IF file.stage = "encrypting"
            THEN \A rnd \in Randomness(file.inner) :
                   ~EncryptData(file.inner, chunk, file.key, file.kw, rnd).ok
            ELSE ~DecryptData(file.inner, chunk, file.key, file.kw).ok)
     => /\ file'.stage = (IF file.stage = "encrypting" THEN "encrypted" ELSE "decrypted")
        /\ (IF file.stage = "encrypting" THEN file'.encRet ELSE file'.decRet) = "False"
        /\ file'.innerRet = "False"
        /\ file'.pos = file.pos
        /\ disk' = disk]_vars

\* C17's case: decrypt_file returned False on a chunk that is not the first
\* and not the last of its input; the chunks before it are in the output.
C17_Witness ==
  /\ file.cipher.family # "RSA" /\ file.stage = "decrypted"
  /\ file.decRet = "False" /\ file.innerRet = "False"
  /\ file.pos > 0 /\ file.pos + file.chunk_size < Len(disk[file.src])
  /\ disk[file.dst] # <<>>
  /\ ~DecryptData(file.inner, ReadChunk(disk[file.src], file.pos, file.chunk_size),
                  file.key, file.kw).ok

\* C18: RSACipher.encrypt_file and RSACipher.decrypt_file return True only
\* if the inner AES stream call succeeded on every chunk (returned True);
\* when the inner call returned False, they return False.
C18_RSAReturnsInnerResult ==
  file.cipher.family = "RSA" =>
    /\ file.stage = "encrypted" /\ file.encRet = "True" => file.innerRet = "True"
    /\ file.stage = "decrypted" /\ file.decRet = "True" => file.innerRet = "True"

\* C19: in a streaming encrypt_file/decrypt_file with a progress callback,
\* the callback is called once per chunk written, with the cumulative
\* percentage: the values do not decrease, lie in (0, 100], the last one is
\* exactly 100 when the streaming call succeeds on a non-empty file, and on an
\* empty file the callback is never called.
C19_ProgressCallback ==
  file.stage # "idle" =>
    LET p == file.progress
    IN /\ Len(p) = (file.pos + file.chunk_size - 1) \div file.chunk_size
       /\ \A i \in 1..Len(p) : p[i].num > 0 /\ p[i].num <= 100 * p[i].den
       /\ \A i \in 1..Len(p), j \in 1..Len(p) :
            i < j => p[i].num * p[j].den <= p[j].num * p[i].den
       /\ file.stage \in {"encrypting", "decrypting"} /\ Len(disk[file.src]) = 0
            => p = <<>>
       /\ file.pos = 0 => p = <<>>
       /\ file.innerRet = "True" /\ file.pos > 0
            => Len(p) > 0 /\ p[Len(p)].num = 100 * p[Len(p)].den

\* C19's case: encrypt_file succeeded on a file of three chunks, the last
\* one partial, and the callback was called three times.
C19_Witness ==
  /\ file.stage = "encrypted" /\ file.innerRet = "True"
  /\ Len(file.progress) = 3
  /\ file.pos % file.chunk_size # 0
  /\ file.progress[1].num < file.progress[2].num
  /\ file.progress[3].num = 100 * file.progress[3].den

\* ------------------------------------------ the RSA container (rsa.py)
\* The container encrypt_file wrote is cut short before decrypt_file is
\* given it: inside the length, inside the wrapped session, right after it,
\* or inside the AES stream.
ContainerTruncate ==
  /\ file.stage = "encrypted" /\ file.cipher.family = "RSA" /\ file.encRet = "True"
  /\ \E cut \in {0, 3, 4, 3 + file.cipher.key_size \div 8,
                  4 + file.cipher.key_size \div 8,
                  5 + file.cipher.key_size \div 8} :
       /\ cut < Len(disk["enc"])
       /\ disk' = [disk EXCEPT !["enc"] = Take(@, cut)]
  /\ UNCHANGED <<data, file, store, km, par, worker, batch, factory, monitor>>

\* RSACipher.encrypt_file and decrypt_file on short files, with the
\* container possibly cut short in between.
NextContainer ==
  \/ (FileEncryptStart /\ file'.cipher.family = "RSA" /\ Len(disk'["plain"]) <= 1)
  \/ FileEncryptChunk
  \/ FileEncryptEnd
  \/ ContainerTruncate
  \/ FileDecryptStart
  \/ FileDecryptChunk
  \/ FileDecryptEnd

SpecContainer == Init /\ [][NextContainer]_vars

\* C22: RSACipher.encrypt_file writes [4-byte big-endian length L][L bytes
\* of wrapped session][AES stream], the wrapped plaintext being the 32-byte
\* session key followed by the 16-byte IV; decrypt_file reports failure on a
\* file shorter than 4 or than 4 + L bytes, and otherwise, under the matching
\* private key, gets the same session key, IV and AES stream back.
C22_ContainerLayout ==
  [][file'.cipher.family = "RSA" =>
       /\ (file.stage = "encrypting" /\ file'.stage = "encrypted" /\ file'.encRet = "True")
            => LET enc == disk'["enc"]
                   L == FromBytes4(Take(enc, 4))
                   session == OAEPDecrypt(KwargsOf(file.K).private_key,
                                          SubSeq(enc, 5, 4 + L))
               IN /\ Len(enc) >= 4 + L
                  /\ session.ok /\ session.data = file.key \o file.kw.iv
                  /\ Len(file.key) = 32 /\ Len(file.kw.iv) = 16
                  /\ Drop(enc, 4 + L) = disk["enc.temp"]
       /\ (file.stage = "encrypted" /\ file'.stage # "encrypted")
            => LET enc == disk["enc"]
               IN IF Len(enc) < 4 \/ Len(enc) < 4 + FromBytes4(Take(enc, 4))
                  THEN file'.stage = "decrypted" /\ file'.decRet = "False"
                  ELSE KwargsOf(file'.decK).private_key = KwargsOf(file.K).private_key
                       => /\ file'.stage = "decrypting"
                          /\ file'.key = file.key /\ file'.kw.iv = file.kw.iv
                          /\ disk'["enc.temp"] = Drop(enc, 4 + FromBytes4(Take(enc, 4)))
    ]_vars

\* C22's case: decrypt_file was given a container that ends inside the
\* wrapped session and returned False.
C22_Witness ==
  /\ file.cipher.family = "RSA" /\ file.stage = "decrypted" /\ file.decRet = "False"
  /\ Len(disk["enc"]) >= 4
  /\ Len(disk["enc"]) < 4 + FromBytes4(Take(disk["enc"], 4))
  /\ MatchingKey

\* C16: a file operation in progress is cancellable between chunks: once
\* stop() has set abort, the encrypt_file that is running processes no
\* further chunk of its file (it reads, encrypts and writes nothing more).
C16_AbortStopsNextChunk ==
  [][(worker.pc = "file" /\ worker.abort)
       => (file'.pos = file.pos /\ disk' = disk)]_vars

\* ---------------------------------- BatchProcessor (utils/batch_processor.py)
\* process_files(file_paths, process_func) is entered: the counters are
\* reset and one future per file is submitted to the pool.  A file is
\* described by whether process_func raises on it.
BatchStart ==
  /\ batch.pc = "none"
  /\ \E n \in 0..MaxBatchFiles :
       \E raises \in [1..n -> BOOLEAN] :
         batch' = [BatchIdle EXCEPT !.pc = "as_completed", !.file_paths = raises,
                     !.future = [i \in 1..n |-> "pending"]]
  /\ UNCHANGED <<data, file, disk, store, km, par, worker, factory, monitor>>

\* A pool thread runs _process_file_wrapper of one submitted file to its
\* end: the future holds the result or the exception.
BatchRun(i) ==
  /\ batch.pc = "as_completed"
  /\ batch.future[i] = "pending"
  /\ batch' = [batch EXCEPT !.future[i] = "done"]
  /\ UNCHANGED <<data, file, disk, store, km, par, worker, factory, monitor>>

\* One turn of the loop over as_completed, on a future that is done: leave
\* the loop, cancelling what has not started, when a stop was requested;
\* otherwise count the file on a result and list it on an exception.
BatchCollect(i) ==
  /\ batch.pc = "as_completed"
  /\ batch.future[i] = "done"
  /\ IF batch.stop_requested
     THEN batch' = [batch EXCEPT !.pc = "return",
                      !.future = [j \in DOMAIN batch.future |->
                                    IF batch.future[j] = "pending" THEN "cancelled"
                                    ELSE batch.future[j]]]
     ELSE IF batch.file_paths[i]
     THEN batch' = [batch EXCEPT !.future[i] = "collected",
                                 !.failed_files = Append(@, i)]
     ELSE batch' = [batch EXCEPT !.future[i] = "collected",
                                 !.processed_files = @ + 1]
  /\ UNCHANGED <<data, file, disk, store, km, par, worker, factory, monitor>>

\* stop(), called from another thread while process_files runs.
BatchStop ==
  /\ batch.pc = "as_completed"
  /\ ~batch.stop_requested
  /\ batch' = [batch EXCEPT !.stop_requested = TRUE]
  /\ UNCHANGED <<data, file, disk, store, km, par, worker, factory, monitor>>

\* The loop is over (every future was yielded, or the loop was left): the
\* counts are computed and returned.  total_time is left out of ret.
BatchReturn ==
  /\ \/ batch.pc = "return"
     \/ /\ batch.pc = "as_completed"
        /\ \A i \in DOMAIN batch.future : batch.future[i] = "collected"
  /\ LET success_count == batch.processed_files - Len(batch.failed_files)
     IN batch' = [batch EXCEPT !.pc = "returned",
                               !.ret = <<success_count, Len(batch.failed_files)>>]
  /\ UNCHANGED <<data, file, disk, store, km, par, worker, factory, monitor>>

NextBatch ==
  \/ BatchStart
  \/ \E i \in DOMAIN batch.future : BatchRun(i)
  \/ \E i \in DOMAIN batch.future : BatchCollect(i)
  \/ BatchStop
  \/ BatchReturn

SpecBatch == Init /\ [][NextBatch]_vars

\* C20: when stop() is not called, process_files attempts every file even
\* when some fail and returns (success_count, fail_count, total_time) with
\* success_count the number of files process_func completed on, fail_count
\* the number of files it raised on, and the two adding up to the number of
\* files.
C20_BatchCounts ==
  batch.pc = "returned" /\ ~batch.stop_requested =>
    LET n == Len(batch.file_paths)
    IN /\ \A i \in 1..n : batch.future[i] = "collected"
       /\ batch.ret[1] = Cardinality({i \in 1..n : ~batch.file_paths[i]})
       /\ batch.ret[2] = Cardinality({i \in 1..n : batch.file_paths[i]})
       /\ batch.ret[1] + batch.ret[2] = n

\* ---------------------------------------- CryptoFactory (crypto_factory.py)
\* create_algorithm(name): the registered constructor is called, a name that
\* is not registered raises ValueError.
CryptoFactory_create_algorithm(algorithms, name) ==
  IF \E c \in algorithms : c.name = name
  THEN Ok(CHOOSE c \in algorithms : c.name = name)
  ELSE Raise("ValueError")

\* A caller asks the factory for a cipher by name; the names are the ones
\* of every key size and mode of the ciphers, and some that name no cipher.
FactoryCreate ==
  /\ Len(factory.calls) < MaxFactoryCalls
  /\ \E name \in {AESCipher(ks, m).name : ks \in AESKeySizes, m \in AESModes}
                  \cup {RSACipher(b).name : b \in {1024, 2048, 4096}}
                  \cup {ChaCha20Cipher.name, "AES-512-CBC", "aes-256-cbc", "RSA-512", ""} :
       factory' = [factory EXCEPT !.calls =
                     Append(@, [name |-> name,
                                ret |-> CryptoFactory_create_algorithm(factory.algorithms,
                                                                       name)])]
  /\ UNCHANGED <<data, file, disk, store, km, par, worker, batch, monitor>>

SpecFactory == Init /\ [][FactoryCreate]_vars

\* C21: create_algorithm(name) returns a cipher named name for each of
\* AES-{128,192,256}-{CBC,CFB,OFB,CTR}, RSA-{1024,2048,4096} and
\* ChaCha20-Poly1305, raises the unsupported-algorithm error (ValueError)
\* for every other name, and leaves the registry as it was.
C21_CreateAlgorithm ==
  /\ factory.algorithms = RegisteredCiphers
  /\ \A i \in 1..Len(factory.calls) :
       LET call == factory.calls[i]
       IN IF call.name \in {"AES-" \o ToString(ks) \o "-" \o m :
                               ks \in {128, 192, 256}, m \in {"CBC", "CFB", "OFB", "CTR"}}
                            \cup {"RSA-1024", "RSA-2048", "RSA-4096", "ChaCha20-Poly1305"}
          THEN call.ret.ok /\ call.ret.data.name = call.name
          ELSE ~call.ret.ok /\ call.ret.err = "ValueError"

\* ------------------------------------------ FileMonitor (utils/file_monitor.py)
\* start_monitoring(directory, auto_process, process_handler) on an existing
\* directory: the id is the directory and the second of the clock, the
\* handler and the observer are stored under it (an entry already under that
\* id is replaced), the observer is started, and so is the processing
\* thread if it is not running.  The n-th call creates observer n and
\* handler n.
MonitorStart ==
  /\ monitor.cpc = "none"
  /\ Len(monitor.ids) < MaxMonitors
  /\ \E directory \in {<<"d">>, <<"e">>}, auto_process \in BOOLEAN,
        now \in {monitor.clock, monitor.clock + 1} :
       /\ now <= MaxClock
       /\ LET monitor_id == <<directory, now>>
              n == Len(monitor.ids) + 1
              DictSet(dict, entry) ==
                IF \E i \in 1..Len(dict) : dict[i].id = monitor_id
                THEN [i \in 1..Len(dict) |->
                        IF dict[i].id = monitor_id THEN entry ELSE dict[i]]
                ELSE Append(dict, entry)
          IN monitor' = [monitor EXCEPT
               !.clock = now,
               !.auto_process_handlers =
                  IF auto_process THEN DictSet(@, [id |-> monitor_id, handler |-> n])
                  ELSE @,
               !.live = @ \cup {n},
               !.observers = DictSet(@, [id |-> monitor_id, directory |-> directory,
                                         observer |-> n]),
               !.is_running = TRUE,
               !.tpc = IF monitor.is_running THEN @ ELSE "loop",
               !.ids = Append(@, monitor_id)]
  /\ UNCHANGED <<data, file, disk, store, km, par, worker, batch, factory>>

\* stop_monitoring(monitor_id) with an id start_monitoring returned: the
\* observer under the id is taken out, stopped and joined, the handler under
\* the id is removed; when no observer is left is_running is cleared and the
\* caller joins the processing thread before it returns.
MonitorStop ==
  \/ /\ monitor.cpc = "none"
     /\ \E k \in 1..Len(monitor.ids) :
          LET monitor_id == monitor.ids[k]
              Without(dict) == SelectSeq(dict, LAMBDA e : e.id # monitor_id)
              known == \E i \in 1..Len(monitor.observers) :
                         monitor.observers[i].id = monitor_id
              observers == IF known THEN Without(monitor.observers)
                           ELSE monitor.observers
              removed == IF known
                         THEN {monitor.auto_process_handlers[i].handler :
                                 i \in {j \in 1..Len(monitor.auto_process_handlers) :
                                          monitor.auto_process_handlers[j].id = monitor_id}}
                         ELSE {}
              join == observers = <<>> /\ monitor.is_running
          IN monitor' = [monitor EXCEPT
               !.observers = observers,
               !.live = IF known
                        THEN @ \ {monitor.observers[i].observer :
                                    i \in {j \in 1..Len(monitor.observers) :
                                             monitor.observers[j].id = monitor_id}}
                        ELSE @,
               !.auto_process_handlers = IF known THEN Without(@) ELSE @,
               !.is_running = IF join THEN FALSE ELSE @,
               !.cpc = IF join THEN "join" ELSE "none",
               !.pending = IF join THEN removed ELSE {},
               !.stopped = IF join THEN @ ELSE @ \cup removed,
               !.stops = TRUE]
  \/ /\ monitor.cpc = "join"
     /\ monitor.tpc = "exited"
     /\ monitor' = [monitor EXCEPT !.cpc = "none", !.tpc = "none",
                                   !.stopped = @ \cup monitor.pending,
                                   !.pending = {}]
  /\ UNCHANGED <<data, file, disk, store, km, par, worker, batch, factory>>

\* A running observer sees a file appear in its directory and its
\* FileMonitorHandler puts the event on the queue.
MonitorEvent ==
  /\ Len(monitor.event_queue) < MaxQueue
  /\ \E i \in 1..Len(monitor.ids) :
       /\ i \in monitor.live
       /\ monitor' = [monitor EXCEPT
            !.event_queue = Append(@, monitor.ids[i][1] \o <<"/", "f">>)]
  /\ UNCHANGED <<data, file, disk, store, km, par, worker, batch, factory>>

\* The processing thread, _process_events, one step at a time: the test of
\* is_running, the get from the queue, one turn of the loop over
\* auto_process_handlers up to the tests of lines 282-288 (a dict that
\* changed size raises RuntimeError, caught at line 301), and the call of
\* the handler.
MonitorProcess ==
  /\ \/ /\ monitor.tpc = "loop" /\ ~monitor.is_running
        /\ monitor' = [monitor EXCEPT !.tpc = "exited"]
     \/ /\ monitor.tpc = "loop" /\ monitor.is_running
        /\ monitor.event_queue # <<>>
        /\ monitor' = [monitor EXCEPT
             !.tpc = "for", !.event = Head(monitor.event_queue),
             !.event_queue = Tail(@),
             !.todo = monitor.auto_process_handlers,
             !.size = Len(monitor.auto_process_handlers)]
     \/ /\ monitor.tpc = "for"
        /\ IF Len(monitor.auto_process_handlers) # monitor.size \/ monitor.todo = <<>>
           THEN monitor' = [monitor EXCEPT !.tpc = "loop", !.event = <<>>,
                                           !.todo = <<>>, !.size = 0]
           ELSE LET h == Head(monitor.todo)
                    info == SelectSeq(monitor.observers, LAMBDA o : o.id = h.id)
                IN IF info # <<>>
                      /\ Len(monitor.event) >= Len(info[1].directory)
                      /\ Take(monitor.event, Len(info[1].directory)) = info[1].directory
                   THEN monitor' = [monitor EXCEPT !.tpc = "handler", !.cur = h.handler,
                                                   !.todo = Tail(@)]
                   ELSE monitor' = [monitor EXCEPT !.todo = Tail(@)]
     \/ /\ monitor.tpc = "handler"
        /\ monitor' = [monitor EXCEPT
             !.tpc = "for", !.cur = 0,
             !.late = IF monitor.cur \in monitor.stopped THEN @ \cup {monitor.cur} ELSE @]
  /\ UNCHANGED <<data, file, disk, store, km, par, worker, batch, factory>>

NextMonitor ==
  \/ MonitorStart
  \/ MonitorStop
  \/ MonitorEvent
  \/ MonitorProcess

SpecMonitor == Init /\ [][NextMonitor]_vars

\* C23: start_monitoring returns an id that is unique among the registered
\* tasks, also for the same directory registered again at once: after k
\* successful calls and no stop, get_monitoring_tasks lists k tasks and every
\* started observer can be stopped through its own id.
C23_UniqueMonitorIds ==
  ~monitor.stops =>
    /\ \A i \in 1..Len(monitor.ids), j \in 1..Len(monitor.ids) :
         i # j => monitor.ids[i] # monitor.ids[j]
    /\ Len(monitor.observers) = Len(monitor.ids)
    /\ \A n \in monitor.live :
         \E i \in 1..Len(monitor.observers) :
           /\ monitor.observers[i].observer = n
           /\ monitor.observers[i].id = monitor.ids[n]

\* C28: once stop_monitoring(id) has returned, the handler registered for id
\* is not called again, whatever the interleaving with the processing thread
\* and also while other tasks keep that thread running.
C28_NoHandlerAfterStop == monitor.late = {}

\* -------------------------------------------- KeyManager (key_manager.py)

\* Key names and paths are sequences of characters.  A path is taken
\* relative to storage_dir: os.path.join(self.storage_dir, f"{key_name}.key").
KeyFile(key_name) == key_name \o <<".", "k", "e", "y">>

\* key_name.replace(" ", "_").replace("/", "_").replace("\\", "_")
Sanitize(key_name) ==
  [i \in 1..Len(key_name) |->
     IF key_name[i] \in {" ", "/", "\\"} THEN "_" ELSE key_name[i]]

\* file_name.endswith(".key")
EndsWithKey(file_name) ==
  Len(file_name) >= 4 /\ SubSeq(file_name, Len(file_name) - 3, Len(file_name)) = <<".", "k", "e", "y">>

\* os.listdir(self.storage_dir): the entries directly inside the directory.
ListDir(st) == {p \in DOMAIN st : \A i \in 1..Len(p) : p[i] # "/"}

\* b"ENCRYPTED:"
Magic == <<69, 78, 67, 82, 89, 80, 84, 69, 68, 58>>

\* The first ten bytes of json.dump(save_data, indent=2): {, newline, two
\* spaces and "name".
JsonHead == <<123, 10, 32, 32, 34, 110, 97, 109, 101, 34>>

\* Stand-in for PBKDF2HMAC(SHA256, length=32, salt, iterations=100000)
\* .derive(password.encode()), urlsafe-base64 encoded.
KeyManager_derive_key_from_password(password, salt) ==
  LET k == SumBytes(password) + 7 * Len(password)
  IN B64Encode([i \in 1..32 |-> (k + salt[((i - 1) % Len(salt)) + 1] + i) % 256])

\* The text of a JSON document, and json.loads of it.
JsonDumps(d) == [kind |-> "json", key |-> <<>>, dict |-> d]

JsonLoads(text) == IF text.kind = "json" THEN Ok(text.dict) ELSE Raise("JSONDecodeError")

\* Stand-in for Fernet(key).encrypt(json text) and .decrypt(token): the token
\* opens under the key it was made with and is InvalidToken under any other.
FernetEncrypt(key, text) == [kind |-> "fernet", key |-> key, dict |-> text.dict]

FernetDecrypt(key, token) ==
  IF token.kind = "fernet" /\ token.key = key THEN Ok(JsonDumps(token.dict))
  ELSE Raise("InvalidToken")

\* if password: a str that is not empty.
Truthy(password) == password.t = "str" /\ password.v # <<>>

\* isinstance(value, (str, int, float, bool, list, dict)) or value is None
Serializable(value) == value.t \in {"str", "int", "dict", "None"}

\* The loop of save_key over key_data.items(): serializable values as they
\* are, bytes base64-encoded, anything else (the key objects) left out.
RECURSIVE SaveFields(_, _, _)
SaveFields(save_data, key_data, i) ==
  IF i > Len(key_data) THEN save_data
  ELSE LET key == key_data[i][1]
           value == key_data[i][2]
       IN IF Serializable(value)
          THEN SaveFields(Put(save_data, key, value), key_data, i + 1)
          ELSE IF value.t = "bytes"
               THEN SaveFields(Put(save_data, key, PyStr(B64Encode(value.v))), key_data, i + 1)
          ELSE SaveFields(save_data, key_data, i + 1)

\* datetime.now().isoformat(): the clock is not modelled.
Now == PyStr("now")

\* save_key: the record written to key_file.  saved is history, not bytes:
\* the arguments of the save_key call that wrote the file.
KeyManager_save_data(key_data, key_name) ==
  SaveFields(
    << <<"name", PyStr(Sanitize(key_name))>>,
       <<"algorithm", IF Has(key_data, "algorithm") THEN Get(key_data, "algorithm")
                      ELSE PyStr("unknown")>>,
       <<"created_at", IF Has(key_data, "created_at") THEN Get(key_data, "created_at")
                       ELSE Now>> >>,
    key_data, 1)

\* save_key had it never taken the password branch.
KeyManager_save_key_plain(key_data, key_name, password, salt) ==
  [head |-> JsonHead, body |-> JsonDumps(KeyManager_save_data(key_data, key_name)),
   saved |-> [name |-> key_name, password |-> password, K |-> key_data]]

\* save_key: with a password that is not empty the marker, the salt and the
\* Fernet token of the JSON text; else the JSON text itself.
KeyManager_save_key(key_data, key_name, password, salt) ==
  LET save_data == KeyManager_save_data(key_data, key_name)
      saved == [name |-> key_name, password |-> password, K |-> key_data]
  IN IF Truthy(password)
     THEN LET derived_key == KeyManager_derive_key_from_password(password.v, salt)
          IN [head |-> Magic \o salt,
              body |-> FernetEncrypt(derived_key, JsonDumps(save_data)),
              saved |-> saved]
     ELSE [head |-> JsonHead, body |-> JsonDumps(save_data), saved |-> saved]

\* key.endswith("_b64") and key.replace("_b64", ""), on the field names that occur.
EndsWithB64(key) == key \in {"key_b64", "iv_b64"}

StripB64(key) == IF key = "key_b64" THEN "key" ELSE IF key = "iv_b64" THEN "iv" ELSE key

\* The loop of load_key over key_data.items(): the base64 fields are kept
\* and also decoded to bytes (under the name without _b64).
RECURSIVE LoadFields(_, _, _)
LoadFields(result_data, key_data, i) ==
  IF i > Len(key_data) THEN result_data
  ELSE LET key == key_data[i][1]
           value == key_data[i][2]
       IN IF EndsWithB64(key) \/ key \in {"key", "iv", "private_pem", "public_pem"}
          THEN LET kept == Put(result_data, key, value)
                   decoded == IF value.t = "str" THEN B64Decode(value.v) ELSE Raise("skip")
               IN IF value.t = "str" /\ decoded.ok
                  THEN LoadFields(Put(kept, StripB64(key), PyBytes(decoded.data)), key_data, i + 1)
                  ELSE LoadFields(kept, key_data, i + 1)
          ELSE LoadFields(Put(result_data, key, value), key_data, i + 1)

\* file_data.startswith(b"ENCRYPTED:")
IsProtected(content) == Take(content.head, 10) = Magic

\* load_key had it parsed a protected record without opening the token.
KeyManager_load_key_unchecked(st, key_name, password) ==
  LET key_file == KeyFile(key_name)
  IN IF key_file \notin DOMAIN st THEN PyNone
     ELSE PyDict(LoadFields(<<>>, st[key_file].body.dict, 1))

\* load_key: the dict returned, or None (missing file, a protected record
\* with no password, a token that does not open, a record that does not parse).
KeyManager_load_key(st, key_name, password) ==
  LET key_file == KeyFile(key_name)
  IN IF key_file \notin DOMAIN st THEN PyNone
     ELSE LET file_data == st[key_file]
          IN IF IsProtected(file_data)
             THEN IF ~Truthy(password) THEN PyNone
                  ELSE LET salt == SubSeq(file_data.head, 11, 26)
                           derived_key == KeyManager_derive_key_from_password(password.v, salt)
                           decrypted_data == FernetDecrypt(derived_key, file_data.body)
                       IN IF ~decrypted_data.ok THEN PyNone
                          ELSE PyDict(LoadFields(<<>>, JsonLoads(decrypted_data.data).data, 1))
             ELSE LET key_data == JsonLoads(file_data.body)
                  IN IF ~key_data.ok THEN PyNone
                     ELSE PyDict(LoadFields(<<>>, key_data.data, 1))

\* list_keys had it copied the parsed record into its result.
KeyManager_list_keys_leaky(st) ==
  LET names == {SubSeq(f, 1, Len(f) - 4) : f \in {g \in ListDir(st) : EndsWithKey(g)}}
  IN [key_name \in names |->
        LET key_file == KeyFile(key_name)
            is_encrypted == Take(st[key_file].head, 10) = Magic
        IN [name |-> key_name, file |-> key_file, is_encrypted |-> is_encrypted,
            algorithm |-> IF ~is_encrypted THEN Get(st[key_file].body.dict, "algorithm").v
                          ELSE "encrypted",
            data |-> st[key_file].body.dict]]

\* list_keys had it tested the marker against the wrong header length.
KeyManager_list_keys_header(st) ==
  LET names == {SubSeq(f, 1, Len(f) - 4) : f \in {g \in ListDir(st) : EndsWithKey(g)}}
  IN [key_name \in names |->
        LET key_file == KeyFile(key_name)
            is_encrypted == Take(st[key_file].head, 9) = Magic
            key_data == JsonLoads(st[key_file].body)
            algorithm == IF ~is_encrypted /\ key_data.ok
                         THEN IF Has(key_data.data, "algorithm")
                              THEN Get(key_data.data, "algorithm").v ELSE "unknown"
                         ELSE "unknown"
        IN [name |-> key_name, file |-> key_file, is_encrypted |-> is_encrypted,
            algorithm |-> IF ~is_encrypted THEN algorithm ELSE "encrypted"]]

\* list_keys: for every *.key entry of the directory its name, its path,
\* whether it starts with the marker and, when it does not, its algorithm.
KeyManager_list_keys(st) ==
  LET names == {SubSeq(f, 1, Len(f) - 4) : f \in {g \in ListDir(st) : EndsWithKey(g)}}
  IN [key_name \in names |->
        LET key_file == KeyFile(key_name)
            is_encrypted == Take(st[key_file].head, 10) = Magic
            key_data == JsonLoads(st[key_file].body)
            algorithm == IF ~is_encrypted /\ key_data.ok
                         THEN IF Has(key_data.data, "algorithm")
                              THEN Get(key_data.data, "algorithm").v ELSE "unknown"
                         ELSE "unknown"
        IN [name |-> key_name, file |-> key_file, is_encrypted |-> is_encrypted,
            algorithm |-> IF ~is_encrypted THEN algorithm ELSE "encrypted"]]

\* delete_key had it returned True for a file that does not exist.
KeyManager_delete_key_quiet(st, key_name) ==
  LET key_file == KeyFile(key_name)
  IN <<TRUE, [p \in DOMAIN st \ {key_file} |-> st[p]]>>

\* delete_key that empties the storage directory when the file exists.
KeyManager_delete_key_all(st, key_name) ==
  LET key_file == KeyFile(key_name)
  IN IF key_file \notin DOMAIN st THEN <<FALSE, st>>
     ELSE <<TRUE, [p \in {} |-> st[p]]>>

\* delete_key: False when the file does not exist, else the file is removed
\* and True returned.
KeyManager_delete_key(st, key_name) ==
  LET key_file == KeyFile(key_name)
  IN IF key_file \notin DOMAIN st THEN <<FALSE, st>>
     ELSE <<TRUE, [p \in DOMAIN st \ {key_file} |-> st[p]]>>

\* ---------------------------------------------- calls on the key manager

\* km is the last call on the key manager: its arguments, what it returned,
\* whether the file it names existed before it (found) and whether it left
\* the storage directory as it was (same).

\* The key names the calls are made with: a plain one, one that save_key
\* rewrites, the name it is rewritten to, and one that leaves the directory.
KeyNames ==
  {<<"k">>, <<"a", " ", "b">>, <<"a", "_", "b">>, <<".", ".", "/", "k">>}

\* Passwords: None, "", "p" and, on load_key only, "q".
SavePasswords == {PyNone, PyStr(<<>>), PyStr(<<112>>)}

LoadPasswords == SavePasswords \cup {PyStr(<<113>>)}

\* Key material as generate_key returns it: one cipher of each class, the
\* AES key 24 bytes, so that base64 with two, one and no padding symbols occurs.
KmCiphers == {AESCipher(192, "CBC"), RSACipher(2048), ChaCha20Cipher}

KmKeys == {CHOOSE K \in GenerateKey(c) : TRUE : c \in KmCiphers}

\* salt = os.urandom(16) in _derive_key_from_password: one draw, the salt
\* only travels from save_key to load_key.
Salts == {Ramp(16, 7)}

\* key_manager.save_key(key_data, key_name, password)
KmSave ==
  \E key_data \in KmKeys, key_name \in KeyNames, password \in SavePasswords,
     salt \in Salts :
    LET key_file == KeyFile(Sanitize(key_name))
        content == KeyManager_save_key(key_data, key_name, password, salt)
    IN /\ key_file \in DOMAIN store \/ Cardinality(DOMAIN store) < MaxRecords
       /\ store' = [p \in DOMAIN store \cup {key_file} |->
                      IF p = key_file THEN content ELSE store[p]]
       /\ km' = [op |-> "save", name |-> key_name, password |-> password,
                 ret |-> key_file, found |-> key_file \in DOMAIN store,
                 same |-> (store' = store)]
       /\ UNCHANGED <<data, file, disk, par, worker, batch, factory, monitor>>

\* key_manager.load_key(key_name, password)
KmLoad ==
  \E key_name \in KeyNames, password \in LoadPasswords :
    /\ store # StoreIdle
    /\ km' = [op |-> "load", name |-> key_name, password |-> password,
              ret |-> KeyManager_load_key(store, key_name, password),
              found |-> KeyFile(key_name) \in DOMAIN store, same |-> TRUE]
    /\ UNCHANGED <<data, file, disk, store, par, worker, batch, factory, monitor>>

\* key_manager.list_keys()
KmList ==
  /\ km' = [op |-> "list", name |-> <<>>, password |-> PyNone,
            ret |-> KeyManager_list_keys(store), found |-> TRUE, same |-> TRUE]
  /\ UNCHANGED <<data, file, disk, store, par, worker, batch, factory, monitor>>

\* key_manager.delete_key(key_name)
KmDelete ==
  \E key_name \in KeyNames :
    LET r == KeyManager_delete_key(store, key_name)
    IN /\ store' = r[2]
       /\ km' = [op |-> "delete", name |-> key_name, password |-> PyNone,
                 ret |-> r[1], found |-> KeyFile(key_name) \in DOMAIN store,
                 same |-> (store' = store)]
       /\ UNCHANGED <<data, file, disk, par, worker, batch, factory, monitor>>

NextKM == KmSave \/ KmLoad \/ KmList \/ KmDelete

SpecKM == Init /\ [][NextKM]_vars

\* The fields of a key record that hold secret bytes, raw or base64.
ByteFields == {"key", "iv", "private_pem", "public_pem"}

SecretFields == ByteFields \cup {"key_b64", "iv_b64"}

\* C6: after save_key(K, name, password), load_key(name, password) with the
\* same name and the same password (None on both sides included) returns a
\* dict whose key, iv, private_pem and public_pem are the bytes of K and
\* whose algorithm is K's.
C6_SaveLoadRoundTrip ==
  km.op = "load" =>
    \A p \in DOMAIN store :
      (store[p].saved.name = km.name /\ store[p].saved.password = km.password) =>
        /\ km.ret.t = "dict"
        /\ \A f \in ByteFields :
             Has(store[p].saved.K, f) =>
               Has(km.ret.v, f) /\ Get(km.ret.v, f) = Get(store[p].saved.K, f)
        /\ Has(km.ret.v, "algorithm")
        /\ Get(km.ret.v, "algorithm") = Get(store[p].saved.K, "algorithm")

\* C7: load_key on a protected record returns key material only when the
\* password is the one given at save; with any other password, "" or None
\* it returns None, nothing else, and the storage directory is as it was.
C7_WrongPasswordFails ==
  (km.op = "load" /\ km.found /\ store[KeyFile(km.name)].body.kind = "fernet") =>
    LET record == store[KeyFile(km.name)]
    IN /\ km.ret # PyNone => km.password = record.saved.password
       /\ km.password # record.saved.password => km.ret = PyNone
       /\ km.ret # PyNone =>
            \A f \in ByteFields :
              Has(record.saved.K, f) => Get(km.ret.v, f) = Get(record.saved.K, f)
       /\ km.same

\* A protected record was loaded with a password that is not its own.
C7_Witness ==
  /\ km.op = "load" /\ km.found
  /\ store[KeyFile(km.name)].body.kind = "fernet"
  /\ km.password \in {PyNone, PyStr(<<113>>)}
  /\ km.ret = PyNone

\* The directory with every secret field of every record blanked.
Scrub(st) ==
  [p \in DOMAIN st |->
     [st[p] EXCEPT !.body.dict =
        [i \in 1..Len(@) |-> IF @[i][1] \in SecretFields THEN <<@[i][1], PyStr(<<>>)>> ELSE @[i]]]]

\* C8: list_keys takes no password and has an entry for every record, and
\* what it returns is what it returns for the directory whose records have
\* their key, IV and PEM fields blanked: no secret byte reaches the result.
C8_ListKeysHidesSecrets ==
  km.op = "list" =>
    /\ DOMAIN km.ret = {SubSeq(p, 1, Len(p) - 4) : p \in DOMAIN store}
    /\ km.ret = KeyManager_list_keys(Scrub(store))

\* list_keys ran on a directory holding a plain and a protected record.
C8_Witness ==
  /\ km.op = "list"
  /\ \E p, q \in DOMAIN store :
       store[p].body.kind = "json" /\ store[q].body.kind = "fernet"
  /\ \E p \in DOMAIN store : Scrub(store)[p] # store[p]

\* C9 as stated: for every record, protected or not, list_keys reports its
\* name, the algorithm it was saved with and whether it is protected.
C9_ListKeysReportsAlgorithm ==
  km.op = "list" =>
    \A p \in DOMAIN store :
      LET key_name == SubSeq(p, 1, Len(p) - 4)
      IN /\ key_name \in DOMAIN km.ret
         /\ km.ret[key_name].name = Get(store[p].body.dict, "name").v
         /\ km.ret[key_name].is_encrypted = (store[p].body.kind = "fernet")
         /\ km.ret[key_name].algorithm = Get(store[p].saved.K, "algorithm").v

\* C9 amended: list_keys reports every record's name and whether it is
\* protected; the algorithm it was saved with for a record that is not
\* protected, and the placeholder "encrypted" for one that is.
C9_ListKeysReports ==
  km.op = "list" =>
    \A p \in DOMAIN store :
      LET key_name == SubSeq(p, 1, Len(p) - 4)
      IN /\ key_name \in DOMAIN km.ret
         /\ km.ret[key_name].name = Get(store[p].body.dict, "name").v
         /\ km.ret[key_name].is_encrypted = (store[p].body.kind = "fernet")
         /\ km.ret[key_name].algorithm =
              IF store[p].body.kind = "fernet" THEN "encrypted"
              ELSE Get(store[p].saved.K, "algorithm").v

\* list_keys reported a protected record and a plain one of another algorithm.
C9_Witness ==
  /\ km.op = "list"
  /\ \E m, n \in DOMAIN km.ret :
       /\ km.ret[m].is_encrypted /\ km.ret[m].algorithm = "encrypted"
       /\ ~km.ret[n].is_encrypted /\ km.ret[n].algorithm = "RSA-2048"

\* C10 as stated: delete_key of a name with no record reports no failure
\* and leaves the storage directory as it was.
C10_DeleteMissingIsNoError ==
  (km.op = "delete" /\ ~km.found) => (km.ret = TRUE /\ km.same)

\* C10 amended: delete_key of a name with no record returns False and
\* leaves the storage directory as it was.
C10_DeleteMissingReturnsFalse ==
  (km.op = "delete" /\ ~km.found) => (km.ret = FALSE /\ km.same)

\* delete_key was called for a name with no record while another record is stored.
C10_Witness ==
  km.op = "delete" /\ ~km.found /\ km.ret = FALSE /\ store # StoreIdle

\* The two layouts of a key record file: the marker, the 16-byte salt and a
\* token that opens under the key derived from the password and that salt;
\* or the JSON text.
ProtectedLayout(record) ==
  /\ Len(record.head) = 26
  /\ Take(record.head, 10) = Magic
  /\ record.body.kind = "fernet"
  /\ FernetDecrypt(KeyManager_derive_key_from_password(record.saved.password.v,
                                                       SubSeq(record.head, 11, 26)),
                   record.body).ok

PlainLayout(record) == record.head = JsonHead /\ record.body.kind = "json"

\* C11 as stated: save_key writes the protected layout for every password
\* other than None and the plain record only for None, and list_keys
\* reports is_encrypted accordingly.
C11_ProtectedWheneverPasswordGiven ==
  /\ \A p \in DOMAIN store :
       IF store[p].saved.password # PyNone
       THEN ProtectedLayout(store[p]) ELSE PlainLayout(store[p])
  /\ km.op = "list" =>
       \A p \in DOMAIN store :
         km.ret[SubSeq(p, 1, Len(p) - 4)].is_encrypted = (store[p].saved.password # PyNone)

\* C11 amended: save_key writes the protected layout for every password
\* that is a non-empty string, and the plain record for None and for "";
\* list_keys reports is_encrypted accordingly.
C11_ProtectedWhenPasswordNonEmpty ==
  /\ \A p \in DOMAIN store :
       IF store[p].saved.password \notin {PyNone, PyStr(<<>>)}
       THEN ProtectedLayout(store[p]) ELSE PlainLayout(store[p])
  /\ km.op = "list" =>
       \A p \in DOMAIN store :
         km.ret[SubSeq(p, 1, Len(p) - 4)].is_encrypted =
           (store[p].saved.password \notin {PyNone, PyStr(<<>>)})

\* list_keys ran on a directory with a record saved under "p" and one under "".
C11_Witness ==
  /\ km.op = "list"
  /\ \E p, q \in DOMAIN store :
       /\ store[p].saved.password = PyStr(<<112>>) /\ km.ret[SubSeq(p, 1, Len(p) - 4)].is_encrypted
       /\ store[q].saved.password = PyStr(<<>>) /\ ~km.ret[SubSeq(q, 1, Len(q) - 4)].is_encrypted

\* ------------------------------- the key manager next to a foreign file

\* A key file in the parent of the storage directory (written there by a
\* KeyManager whose storage_dir is the parent): its path from storage_dir.
OutsideFile == <<".", ".", "/", "k", ".", "k", "e", "y">>

\* The path names a file directly inside the storage directory.
InsideDir(path) == \A i \in 1..Len(path) : path[i] # "/"

InitOutside ==
  /\ data = DataIdle
  /\ file = FileIdle
  /\ disk = DiskIdle
  /\ \E K \in KmKeys, salt \in Salts :
       store = [p \in {OutsideFile} |-> KeyManager_save_key(K, <<"k">>, PyNone, salt)]
  /\ km = KmIdle
  /\ par = ParIdle
  /\ worker = WorkerIdle
  /\ batch = BatchIdle
  /\ factory = FactoryIdle
  /\ monitor = MonitorIdle

SpecKMOutside == InitOutside /\ [][NextKM]_vars

\* C12: save_key, load_key and delete_key sanitize the name before using it
\* as a file name, so save_key writes, load_key reads and delete_key removes
\* only a file directly inside the storage directory: the file outside is
\* never returned and never removed.
C12_NamesSanitized ==
  /\ km.op = "save" => InsideDir(km.ret)
  /\ (km.op = "load" /\ km.ret # PyNone) => InsideDir(KeyFile(km.name))
  /\ (km.op = "delete" /\ km.ret = TRUE) => InsideDir(KeyFile(km.name))
  /\ OutsideFile \in DOMAIN store

\* ------------------------------------------ two save_key calls in parallel

\* open(key_file, 'wb') has created or truncated the file and nothing is
\* written yet.
EmptyFile ==
  [head |-> <<>>, body |-> [kind |-> "empty", key |-> <<>>, dict |-> <<>>],
   saved |-> [name |-> <<>>, password |-> PyNone, K |-> <<>>]]

\* Two threads call save_key under two distinct key names.
ParBegin ==
  /\ par.pc = "none"
  /\ \E K1, K2 \in KmKeys, n1, n2 \in KeyNames, p1, p2 \in SavePasswords, salt \in Salts :
       /\ n1 # n2
       /\ par' = [pc |-> "running",
                  call |-> <<[key_data |-> K1, key_name |-> n1, password |-> p1, salt |-> salt],
                             [key_data |-> K2, key_name |-> n2, password |-> p2, salt |-> salt]>>,
                  at |-> <<"start", "start">>, loaded |-> <<>>]
  /\ UNCHANGED <<data, file, disk, store, km, worker, batch, factory, monitor>>

\* Thread i opens its key file for writing.
ParOpen(i) ==
  /\ par.pc = "running" /\ par.at[i] = "start"
  /\ LET key_file == KeyFile(Sanitize(par.call[i].key_name))
     IN store' = [p \in DOMAIN store \cup {key_file} |->
                    IF p = key_file THEN EmptyFile ELSE store[p]]
  /\ par' = [par EXCEPT !.at[i] = "opened"]
  /\ UNCHANGED <<data, file, disk, km, worker, batch, factory, monitor>>

\* Thread i leaves its with block: what it wrote reaches the file.  (When
\* the other thread wrote the same file in between, the last one to close
\* is taken to win.)
ParClose(i) ==
  /\ par.pc = "running" /\ par.at[i] = "opened"
  /\ LET c == par.call[i]
         key_file == KeyFile(Sanitize(c.key_name))
         content == KeyManager_save_key(c.key_data, c.key_name, c.password, c.salt)
     IN store' = [p \in DOMAIN store \cup {key_file} |->
                    IF p = key_file THEN content ELSE store[p]]
  /\ par' = [par EXCEPT !.at[i] = "closed"]
  /\ UNCHANGED <<data, file, disk, km, worker, batch, factory, monitor>>

\* Both saves are over: load_key of each name, with the password of its save.
ParLoad ==
  /\ par.pc = "running" /\ \A i \in 1..2 : par.at[i] = "closed"
  /\ par' = [par EXCEPT !.pc = "loaded",
               !.loaded = [i \in 1..2 |->
                  KeyManager_load_key(store, par.call[i].key_name, par.call[i].password)]]
  /\ UNCHANGED <<data, file, disk, store, km, worker, batch, factory, monitor>>

NextPar == ParBegin \/ (\E i \in 1..2 : ParOpen(i)) \/ (\E i \in 1..2 : ParClose(i)) \/ ParLoad

SpecPar == Init /\ [][NextPar]_vars

\* What load_key returned holds the byte fields and the algorithm of K.
SameKeyMaterial(ret, K) ==
  /\ ret.t = "dict"
  /\ \A f \in ByteFields : Has(K, f) => Has(ret.v, f) /\ Get(ret.v, f) = Get(K, f)
  /\ Has(ret.v, "algorithm") /\ Get(ret.v, "algorithm") = Get(K, "algorithm")

\* C13: after two save_key calls under distinct names, one after the other
\* or interleaved, both records exist and load_key of each name returns the
\* key material saved under it.
C13_DistinctNamesIndependent ==
  par.pc = "loaded" =>
    /\ Cardinality(DOMAIN store) = 2
    /\ \A i \in 1..2 : SameKeyMaterial(par.loaded[i], par.call[i].key_data)

\* ------------------------- the worker threads of the GUI (gui/qt_threads.py)
\* EncryptionWorker(files, output_dir, algorithm, key, delete_original) or
\* DecryptionWorker(files, output_dir, key, delete_original) is constructed
\* and started: run() emits started, looks the cipher up (EncryptionWorker
\* only; a name the factory does not know ends the run through the outer
\* except, with error and finished) and lists the files.  key is the record
\* generate_key returned or the bare key bytes; the chunk size is the default
\* of encrypt_file, here scaled down to the sizes of ChunkSizes.  For the
\* DecryptionWorker, algorithm is the cipher the .enc files were written with.
WorkerRun ==
  /\ worker.pc = "none"
  /\ \E kind \in {"encrypt", "decrypt"}, delete_original \in BOOLEAN,
        self \in {AESCipher(128, "CBC"), AESCipher(256, "CBC"), AESCipher(256, "CTR"),
                  ChaCha20Cipher, AESCipher(256, "OFB")},
        n \in 1..MaxWorkerFiles, cs \in ChunkSizes :
       \E files \in [1..n -> {Fill(m, 1) : m \in {0, MaxFileLen \div 2, MaxFileLen}}] :
         LET K == CHOOSE K \in GenerateKey(self) : TRUE
             crypto == CryptoFactory_create_algorithm(RegisteredCiphers, self.name)
         IN \E key \in {PyDict(K), PyBytes(KeyArg(K))} :
              /\ kind = "decrypt" => self.family = "AES" /\ self.mode = "CBC"
              /\ worker' =
                   IF kind = "encrypt" /\ ~crypto.ok
                   THEN [WorkerIdle EXCEPT !.pc = "returned", !.kind = kind,
                           !.algorithm = self, !.started = 1, !.error = 1,
                           !.finished = 1]
                   ELSE [WorkerIdle EXCEPT !.pc = "loop", !.kind = kind,
                           !.files = files, !.algorithm = self, !.key = key,
                           !.delete_original = delete_original,
                           !.chunk_size = cs, !.idx = 1, !.started = 1]
  /\ UNCHANGED <<data, file, disk, store, km, par, batch, factory, monitor>>

\* stop(), called from the GUI thread at any moment of the run.
WorkerStop ==
  /\ worker.pc \in {"loop", "file", "generated"}
  /\ ~worker.abort
  /\ worker' = [worker EXCEPT !.abort = TRUE]
  /\ UNCHANGED <<data, file, disk, store, km, par, batch, factory, monitor>>

\* The head of the loop over all_files: leave the loop and emit finished
\* when the list is exhausted or abort is set, otherwise enter
\* crypto.encrypt_file on the next file, with key and iv of the record if key
\* is a dict and with the key alone if it is not.  The DecryptionWorker
\* enters decrypt_file of the first cipher get_all_algorithms() lists,
\* AES-128-CBC: decrypt_file raises nothing, so the loop over the
\* algorithms is left at its first turn.  The .enc file it works on is the
\* one encrypt_file wrote in one chunk under the generated key.
WorkerNextFile ==
  /\ worker.pc = "loop"
  /\ IF worker.idx > Len(worker.files) \/ worker.abort
     THEN /\ worker' = [worker EXCEPT !.pc = "returned", !.finished = @ + 1]
          /\ UNCHANGED <<file, disk>>
     ELSE LET crypto == IF worker.kind = "encrypt" THEN worker.algorithm
                        ELSE AESCipher(128, "CBC")
              K == CHOOSE K \in GenerateKey(worker.algorithm) : TRUE
              rnd == CHOOSE r \in Randomness(worker.algorithm) : TRUE
          IN /\ worker' = [worker EXCEPT !.pc = "file"]
             /\ file' = [FileIdle EXCEPT
                           !.stage = IF worker.kind = "encrypt" THEN "encrypting"
                                     ELSE "decrypting",
                           !.cipher = crypto,
                           !.K = IF worker.key.t = "dict" THEN worker.key.v ELSE <<>>,
                           !.chunk_size = worker.chunk_size,
                           !.inner = crypto,
                           !.key = IF worker.key.t = "dict" THEN KeyArg(worker.key.v)
                                   ELSE worker.key.v,
                           !.kw = IF worker.key.t = "dict" THEN KwargsOf(worker.key.v)
                                  ELSE NoKwargs,
                           !.src = IF worker.kind = "encrypt" THEN "plain" ELSE "enc",
                           !.dst = IF worker.kind = "encrypt" THEN "enc" ELSE "dec"]
             /\ disk' = IF worker.kind = "encrypt"
                        THEN [DiskIdle EXCEPT !["plain"] = worker.files[worker.idx],
                                              !["enc"] = <<>>]
                        ELSE [DiskIdle EXCEPT
                                !["enc"] = EncryptData(worker.algorithm,
                                                       worker.files[worker.idx],
                                                       KeyArg(K), KwargsOf(K), rnd).data,
                                !["dec"] = <<>>]
  /\ UNCHANGED <<data, store, km, par, batch, factory, monitor>>

\* encrypt_file or decrypt_file has returned (its result is not looked at):
\* remove the original when delete_original is set, count the file and go
\* to the next one.  results is what the file operations returned, removed
\* the files os.remove was called on.
WorkerFileDone ==
  /\ worker.pc = "file"
  /\ file.stage = (IF worker.kind = "encrypt" THEN "encrypted" ELSE "decrypted")
  /\ worker' = [worker EXCEPT !.pc = "loop", !.idx = @ + 1,
                  !.processed_files = @ + 1,
                  !.results = Append(@, IF worker.kind = "encrypt" THEN file.encRet
                                        ELSE file.decRet),
                  !.removed = IF worker.delete_original THEN @ \cup {worker.idx} ELSE @]
  /\ UNCHANGED <<data, file, disk, store, km, par, batch, factory, monitor>>

\* KeyGenerationWorker(key_type, algorithm, name, password) is constructed
\* and started: run() emits started, looks the cipher up and generates the
\* key; a name the factory does not know ends the run through the except,
\* with error and finished.
KeyGenRun ==
  /\ worker.pc = "none"
  /\ \E self \in {AESCipher(256, "CBC"), ChaCha20Cipher, AESCipher(256, "OFB")} :
       LET crypto == CryptoFactory_create_algorithm(RegisteredCiphers, self.name)
       IN worker' =
            IF ~crypto.ok
            THEN [WorkerIdle EXCEPT !.pc = "returned", !.kind = "keygen",
                    !.algorithm = self, !.started = 1, !.error = 1, !.finished = 1]
            ELSE [WorkerIdle EXCEPT !.pc = "generated", !.kind = "keygen",
                    !.algorithm = self, !.started = 1,
                    !.key = PyDict(CHOOSE K \in GenerateKey(crypto.data) : TRUE)]
  /\ UNCHANGED <<data, file, disk, store, km, par, batch, factory, monitor>>

\* The rest of KeyGenerationWorker.run after generate_key: return when abort
\* is set; otherwise save the key under the name and emit finished.
KeyGenSave ==
  /\ worker.pc = "generated"
  /\ IF worker.abort
     THEN /\ worker' = [worker EXCEPT !.pc = "returned"]
          /\ UNCHANGED store
     ELSE \E key_name \in {<<"k">>, <<"a", " ", "b">>}, password \in SavePasswords,
             salt \in Salts :
            LET key_file == KeyFile(Sanitize(key_name))
            IN /\ store' = [p \in DOMAIN store \cup {key_file} |->
                              IF p = key_file
                              THEN KeyManager_save_key(worker.key.v, key_name,
                                                       password, salt)
                              ELSE store[p]]
               /\ worker' = [worker EXCEPT !.pc = "returned", !.finished = @ + 1]
  /\ UNCHANGED <<data, file, disk, km, par, batch, factory, monitor>>

NextWorker ==
  \/ WorkerRun
  \/ WorkerStop
  \/ WorkerNextFile
  \/ (worker.pc = "file" /\ FileEncryptChunk)
  \/ (worker.pc = "file" /\ FileEncryptEnd)
  \/ (worker.pc = "file" /\ FileDecryptChunk)
  \/ (worker.pc = "file" /\ FileDecryptEnd)
  \/ WorkerFileDone
  \/ KeyGenRun
  \/ KeyGenSave

SpecWorker == Init /\ [][NextWorker]_vars

\* C24: for every name n save_key accepts, names with spaces or path
\* separators included, load_key(n) and delete_key(n) go to the record file
\* save_key(K, n) wrote: while that file holds what was saved under n,
\* load_key(n) with the password of the save returns K and delete_key(n)
\* removes the file.
C24_SameFileForSaveLoadDelete ==
  [][\A p \in DOMAIN store :
       store[p].saved.name = km'.name =>
         /\ (km'.op = "load" /\ km'.password = store[p].saved.password)
              => SameKeyMaterial(km'.ret, store[p].saved.K)
         /\ km'.op = "delete" => km'.ret = TRUE /\ p \notin DOMAIN store'
    ]_vars

C26_ChaChaFileRoundTrip ==
  file.cipher.family = "ChaCha20" =>
    /\ file.stage \in {"encrypted", "decrypting", "decrypted"} => file.encRet = "True"
    /\ file.stage = "decrypted" => file.decRet = "True" /\ disk["dec"] = disk["plain"]

\* C30: in the AES modes CFB, OFB and CTR encrypt_file writes as many bytes
\* as it has read, at every turn of its loop and when it returns True; and
\* decrypt_file of its output with the same key, IV and chunk size returns
\* True with the input as its output, for every size, sizes above one chunk
\* included.
C30_StreamingModesRoundTrip ==
  file.cipher.family = "AES" /\ file.cipher.mode \in {"CFB", "OFB", "CTR"} =>
    /\ file.stage = "encrypting" => Len(disk["enc"]) = file.pos
    /\ file.stage \in {"encrypted", "decrypting", "decrypted"} =>
         file.encRet = "True" /\ Len(disk["enc"]) = Len(disk["plain"])
    /\ file.stage = "decrypted" => file.decRet = "True" /\ disk["dec"] = disk["plain"]

\* An input of more than one chunk that is no multiple of the block size came
\* back from decrypt_file in a streaming mode.
C30_Witness ==
  /\ file.cipher.family = "AES" /\ file.cipher.mode \in {"CFB", "OFB", "CTR"}
  /\ file.stage = "decrypted" /\ file.decRet = "True"
  /\ Len(disk["plain"]) > file.chunk_size
  /\ Len(disk["plain"]) % BlockBytes # 0
  /\ disk["enc"] # disk["plain"]
  /\ disk["dec"] = disk["plain"]

\* C25: with delete_original set, EncryptionWorker and DecryptionWorker
\* remove the original and count the file as completed only when
\* encrypt_file or decrypt_file returned True: a file whose operation
\* returned False is not removed and not counted.
C25_DeleteOnlyOnSuccess ==
  /\ \A i \in worker.removed : worker.results[i] = "True"
  /\ worker.processed_files =
       Cardinality({i \in 1..Len(worker.results) : worker.results[i] = "True"})

\* C27: every run of EncryptionWorker, DecryptionWorker and
\* KeyGenerationWorker emits started once and finished exactly once, finished
\* after started: no signal is emitted twice, finished is not emitted before
\* started, and when run() has returned, on whatever path, both have been
\* emitted.
C27_StartedThenFinishedOnce ==
  /\ worker.started <= 1 /\ worker.finished <= 1
  /\ worker.finished = 1 => worker.started = 1
  /\ worker.pc = "returned" => worker.started = 1 /\ worker.finished = 1

====
